---------------------------- MODULE Spec2Model ----------------------------
(***************************************************************************)
(* A model of google_bigquery_v2: the value codec (ConvertBigQueryParams), *)
(* the record descriptor the derive macro generates for the test table     *)
(* DbInfos, the typestate QueryBuilder, its executor run  , and the table  *)
(* facade (get_by_pk, reload, save, upsert, update_from).                  *)
(*                                                                         *)
(* Rust Strings are TLA+ strings (TLC concatenates them with \o), a        *)
(* Result is a record tagged "Ok" / "Err" / "Panic", an Option is a        *)
(* sequence of length 0 or 1.                                              *)
(***************************************************************************)
EXTENDS Integers, Sequences, FiniteSets, TLC

(***************************************************************************)
(* Results and JSON values (serde_json::Value)                             *)
(***************************************************************************)
Ok(v) == [tag |-> "Ok", v |-> v]
Err(m) == [tag |-> "Err", msg |-> m]
Panic(m) == [tag |-> "Panic", msg |-> m]
IsOk(r) == r.tag = "Ok"

\* The ? operator: the value of an Ok goes on to F, an Err (or a panic) is
\* what the function returns.
Try(r, F(_)) == IF IsOk(r) THEN F(r.v) ELSE r

None == <<>>
Some(v) == <<v>>
IsSome(o) == Len(o) = 1

JNull == [t |-> "Null"]
JStr(s) == [t |-> "String", s |-> s]
JNum(n) == [t |-> "Number", n |-> n]
JFloat(k) == [t |-> "Number", f |-> k]
JBool(b) == [t |-> "Bool", b |-> b]

(***************************************************************************)
(* Host types.  A type is [opt, base]: Option<base> or base.               *)
(* Host values: i64/i32 are integers, bool is BOOLEAN, String is a string, *)
(* f64 is <<"fin", k>> (the float k + 0.5) or <<"NaN">>, a UTC datetime is *)
(* [secs, nanos] inside the minute 2023-01-01 00:00.                       *)
(***************************************************************************)
Ty(base) == [opt |-> FALSE, base |-> base]
OptTy(base) == [opt |-> TRUE, base |-> base]

\* The integers a decimal string of the model can denote (all of them fit
\* both i32 and i64, so the two differ in nothing the model draws).
IntDom == {-1, 0, 1, 2, 7, 1923, 9999}

\* str::parse::<i64>() and str::parse::<i32>(): the integer whose decimal
\* rendering is s.
parse_int(s) ==
    IF \E n \in IntDom : ToString(n) = s
    THEN Ok(CHOOSE n \in IntDom : ToString(n) = s)
    ELSE Err("invalid digit found in string")

\* A from_value that also renders a JSON boolean or number as its text.
from_value_String_lenient(j) ==
    IF j.t = "String" THEN Ok(j.s)
    ELSE IF j.t = "Bool" THEN Ok(IF j.b THEN "true" ELSE "false")
    ELSE IF j.t = "Number" /\ "n" \in DOMAIN j THEN Ok(ToString(j.n))
    ELSE Err("invalid type: expected a string")

\* serde_json::from_value::<String>(value)
from_value_String(j) ==
    IF j.t = "String" THEN Ok(j.s) ELSE Err("invalid type: expected a string")

Pad2(n) == IF n < 10 THEN "0" \o ToString(n) ELSE ToString(n)
MinutePrefix == "2023-01-01 00:00:"
MinutePrefixRfc == "2023-01-01T00:00:"

\* NaiveDateTime::parse_from_str(value, "%Y-%m-%d %H:%M:%S") after the
\* replacement of "T" by " " and of "Z" by "".
parse_datetime(s) ==
    IF \E n \in 0..59 : s \in {MinutePrefix \o Pad2(n),
                               MinutePrefixRfc \o Pad2(n),
                               MinutePrefixRfc \o Pad2(n) \o "Z"}
    THEN Ok([secs |-> CHOOSE n \in 0..59 :
                         s \in {MinutePrefix \o Pad2(n),
                                MinutePrefixRfc \o Pad2(n),
                                MinutePrefixRfc \o Pad2(n) \o "Z"},
             nanos |-> 0])
    ELSE Err("input contains invalid characters")

\* ConvertBigQueryParams::to_param of the base types.
to_param_base(base, v) ==
    CASE base = "i64" -> JNum(v)
      [] base = "i32" -> JNum(v)
      [] base = "bool" -> IF v THEN JStr("TRUE") ELSE JStr("FALSE")
      [] base = "String" -> JStr(v)
      [] base = "f64" -> IF v[1] = "NaN" THEN JNull ELSE JFloat(v[2])
      [] base = "DateTime" -> JStr(MinutePrefix \o Pad2(v.secs))

\* ConvertBigQueryParams::from_param of the base types.
from_param_base(base, j) ==
    CASE base = "i64" ->
            Try(from_value_String(j), LAMBDA s : parse_int(s))
      [] base = "i32" ->
            Try(from_value_String(j), LAMBDA s : parse_int(s))
      [] base = "bool" ->
            Try(from_value_String(j), LAMBDA s :
                IF s \in {"TRUE", "true"} THEN Ok(TRUE)
                ELSE IF s \in {"FALSE", "false"} THEN Ok(FALSE)
                ELSE Err("Invalid value for bool: " \o s))
      [] base = "String" -> from_value_String(j)
      [] base = "f64" ->
            IF j.t # "Number" THEN Err("invalid type: expected f64")
            ELSE IF "f" \in DOMAIN j THEN Ok(<<"fin", j.f>>)
            ELSE Ok(<<"int", j.n>>)
      [] base = "DateTime" ->
            Try(from_value_String(j), LAMBDA s : parse_datetime(s))

\* impl ConvertBigQueryParams for Option<T>, and the base impls.
to_param(ty, v) ==
    IF ty.opt
    THEN IF IsSome(v) THEN to_param_base(ty.base, v[1]) ELSE JNull
    ELSE to_param_base(ty.base, v)

from_param(ty, j) ==
    IF ty.opt
    THEN IF j = JNull THEN Ok(None)
         ELSE Try(from_param_base(ty.base, j), LAMBDA v : Ok(Some(v)))
    ELSE from_param_base(ty.base, j)

\* convert_value_to_string: a JSON string as it is, null is an error, any
\* other value by its JSON text.
convert_value_to_string(j) ==
    IF j.t = "String" THEN Ok(j.s)
    ELSE IF j = JNull THEN Err("Value is Null")
    ELSE IF "f" \in DOMAIN j THEN Ok(ToString(j.f) \o ".5")
    ELSE Ok(ToString(j.n))

\* ConvertTypeToBigQueryType::convert_type_to_bigquery_type
convert_type_to_bigquery_type(base) ==
    CASE base = "bool" -> "BOOL"
      [] base = "i32" -> "INT64"
      [] base = "i64" -> "INT64"
      [] base = "f64" -> "DOUBLE"
      [] base = "String" -> "STRING"
      [] base = "DateTime" -> "DATETIME"

\* Option<T> advertises the warehouse of T type.
bigquery_type_of(ty) == convert_type_to_bigquery_type(ty.base)


(***************************************************************************)
(* Helpers on sequences and strings                                        *)
(***************************************************************************)
RECURSIVE join(_, _)
\* [String]::join(sep)
join(seq, sep) ==
    IF seq = <<>> THEN ""
    ELSE IF Len(seq) = 1 THEN seq[1]
    ELSE seq[1] \o sep \o join(Tail(seq), sep)

Range(seq) == {seq[i] : i \in DOMAIN seq}

\* The bytes of the identifiers of the model, for the byte-wise order of
\* Rust String comparison.
Bytes(s) ==
    CASE s = "row_id" -> <<114, 111, 119, 95, 105, 100>>
      [] s = "info1" -> <<105, 110, 102, 111, 49>>
      [] s = "info2" -> <<105, 110, 102, 111, 50>>
      [] s = "info3" -> <<105, 110, 102, 111, 51>>
      [] s = "info4i" -> <<105, 110, 102, 111, 52, 105>>
      [] s = "info4b" -> <<105, 110, 102, 111, 52, 98>>
      [] s = "Id" -> <<73, 100>>
      [] s = "info" -> <<105, 110, 102, 111>>
      [] s = "yes" -> <<121, 101, 115>>

RECURSIVE seq_less(_, _)
\* Lexicographic order of byte sequences (Ord for str).
seq_less(a, b) ==
    IF b = <<>> THEN FALSE
    ELSE IF a = <<>> THEN TRUE
    ELSE IF a[1] # b[1] THEN a[1] < b[1]
    ELSE seq_less(Tail(a), Tail(b))

\* An order of the pairs by the second component first.
pair_less_by_db(p, q) ==
    \/ seq_less(Bytes(p[2]), Bytes(q[2]))
    \/ p[2] = q[2] /\ seq_less(Bytes(p[1]), Bytes(q[1]))

\* Ord for (String, String): by the first component, then the second.
pair_less(p, q) ==
    \/ seq_less(Bytes(p[1]), Bytes(q[1]))
    \/ p[1] = q[1] /\ seq_less(Bytes(p[2]), Bytes(q[2]))

RECURSIVE sort_pairs(_)
\* Vec<(String, String)>::sort() of a set of distinct pairs.
sort_pairs(S) ==
    IF S = {} THEN <<>>
    ELSE LET m == CHOOSE x \in S : \A y \in S \ {x} : pair_less(x, y)
         IN  <<m>> \o sort_pairs(S \ {m})

(***************************************************************************)
(* The record descriptor of DbInfos (tests.rs), as the derive macro sees   *)
(* it: the fields without the client field, in declaration order.          *)
(***************************************************************************)
TableName == "Infos"

Fields ==
    << [local |-> "row_id", db |-> "Id", ty |-> Ty("i64"), pk |-> TRUE],
       [local |-> "info1", db |-> "info1", ty |-> OptTy("String"), pk |-> FALSE],
       [local |-> "info2", db |-> "info", ty |-> OptTy("String"), pk |-> FALSE],
       [local |-> "info3", db |-> "info3", ty |-> OptTy("String"), pk |-> FALSE],
       [local |-> "info4i", db |-> "info4i", ty |-> OptTy("i32"), pk |-> FALSE],
       [local |-> "info4b", db |-> "yes", ty |-> OptTy("bool"), pk |-> FALSE] >>

LocalNames == {Fields[i].local : i \in DOMAIN Fields}
FieldOf(local) == Fields[CHOOSE i \in DOMAIN Fields : Fields[i].local = local]
PkField == Fields[CHOOSE i \in DOMAIN Fields : Fields[i].pk]

get_table_name == TableName
get_pk_field_name == PkField.local
get_pk_db_name == PkField.db

\* get_query_fields(include_pk): the HashMap local name -> db name.
get_query_fields(include_pk) ==
    [l \in {Fields[i].local : i \in {j \in DOMAIN Fields :
                                        include_pk \/ ~Fields[j].pk}}
        |-> FieldOf(l).db]

\* BigQueryTable::get_field_db_name
get_field_db_name(field_name) ==
    LET lookup(query_fields) ==
            IF field_name \in DOMAIN query_fields
            THEN Ok(query_fields[field_name])
            ELSE Err("Field " \o field_name \o " not found.")
    IN  lookup(get_query_fields(TRUE))

\* BigQueryTable::get_field_param_name
get_field_param_name(field_name) ==
    Try(get_field_db_name(field_name),
        LAMBDA db_name : Ok("__PARAM_" \o db_name))

\* The quote character of a table identifier (ASCII 96).  A TLA+ string
\* cannot hold that character, so the model writes it as a caret.
Backtick == "^"

\* BigQueryTable::get_table_identifier_from_client
get_table_identifier_from_client(client) ==
    LET name == client.project_id \o "." \o client.dataset_id \o "."
                    \o get_table_name
    IN  Backtick \o name \o Backtick

\* BigQueryTable::get_parameter: the parameter of a value; a value whose
\* to_param is JSON null reaches the todo!() of the function.
get_parameter(ty, value, param_name) ==
    LET match(param_value) ==
            IF IsOk(param_value)
            THEN Ok([name |-> param_name,
                     type |-> bigquery_type_of(ty),
                     value |-> Some(param_value.v)])
            ELSE Panic("not yet implemented: a parameter value probably of sort null")
    IN  match(convert_value_to_string(to_param(ty, value)))

\* The generated get_parameter_from_field: Ok(get_parameter(field)) for a
\* field of the record, an error for any other name.
get_parameter_from_field(rec, field_name) ==
    IF field_name \notin LocalNames
    THEN Err("Field " \o field_name \o " not found")
    ELSE Try(get_parameter(FieldOf(field_name).ty, rec[field_name],
                           get_field_param_name(field_name).v),
             LAMBDA p : Ok(Some(p)))

\* The generated get_field_value / set_field_value (the message of the
\* source puts the name between single quotes, left out here).
get_field_value(rec, field_name) ==
    IF field_name \in LocalNames
    THEN Ok(to_param(FieldOf(field_name).ty, rec[field_name]))
    ELSE Err("Field " \o field_name \o " not found")

set_field_value(rec, field_name, value) ==
    IF field_name \notin LocalNames
    THEN Err("Field " \o field_name \o " not found")
    ELSE Try(from_param(FieldOf(field_name).ty, value),
             LAMBDA v : Ok([rec EXCEPT ![field_name] = v]))

RECURSIVE row_fields(_, _, _)
\* The struct literal of new_from_query_result_row: the fields in
\* declaration order, each from_param(row[db_name])?.  Indexing the
\* HashMap with a missing key panics.
row_fields(rec, row, i) ==
    IF i > Len(Fields) THEN Ok(rec)
    ELSE IF Fields[i].db \notin DOMAIN row
    THEN Panic("key not found in HashMap: " \o Fields[i].db)
    ELSE Try(from_param(Fields[i].ty, row[Fields[i].db]),
             LAMBDA v : row_fields([rec EXCEPT ![Fields[i].local] = v],
                                   row, i + 1))

BlankRecord(client) ==
    [l \in LocalNames \cup {"client"} |-> IF l = "client" THEN client ELSE None]

new_from_query_result_row(client, row) == row_fields(BlankRecord(client), row, 1)

(***************************************************************************)
(* The query builder.  The four typestate axes are fields of the builder   *)
(* record: kind, client (None: NoClient), starting_data (None:             *)
(* NoStartingData) and built.                                              *)
(***************************************************************************)
Kinds == {"Select", "Insert", "Update", "Delete"}

\* BigqueryClient::default is BigqueryClient::empty, which is a todo!().
BigqueryClient_default == Panic("not yet implemented")

\* The derived Default of DbInfos: the default of each field, the client
\* field among them.
DbInfos_default ==
    Try(BigqueryClient_default, LAMBDA client :
        Ok([client |-> client, row_id |-> 0, info1 |-> None, info2 |-> None,
            info3 |-> None, info4i |-> None, info4b |-> None]))

\* The types the caller may give the StartingData parameter of a
\* constructor, and the derived Default of each.
StartingDataTypes == {"NoStartingData", "HasStartingData"}

starting_data_default(StartingData) ==
    IF StartingData = "NoStartingData" THEN Ok(None)
    ELSE Try(DbInfos_default, LAMBDA table : Ok(Some(table)))

\* impl Default for QueryBuilder, with the kind of the constructor.
default_builder(kind, StartingData) ==
    Try(starting_data_default(StartingData), LAMBDA starting_data :
        Ok([kind |-> kind, client |-> None, query |-> "", params |-> <<>>,
            where_clauses |-> <<>>, order_by |-> <<>>, limit |-> None,
            starting_data |-> starting_data, built |-> FALSE]))

\* The constructors of QueryBuilder: a builder of the kind, with no client,
\* not built, and the Default of the StartingData the caller names.
select(StartingData) == default_builder("Select", StartingData)
insert(StartingData) == default_builder("Insert", StartingData)
update(StartingData) == default_builder("Update", StartingData)
delete(StartingData) == default_builder("Delete", StartingData)

\* BigQueryTable::select / insert / update: the constructors at
\* NoStartingData.
table_select == select("NoStartingData").v
table_insert == insert("NoStartingData").v
table_update == update("NoStartingData").v

\* get_sorted_selected_fields: the (local, db) pairs of query_fields(true),
\* sorted as tuples.
get_sorted_selected_fields ==
    sort_pairs({<<l, get_query_fields(TRUE)[l]>> :
                    l \in DOMAIN get_query_fields(TRUE)})

\* The db names in the order of declaration, with no sort.
get_fields_string_declared ==
    join([i \in DOMAIN Fields |-> Fields[i].db], ", ")

\* get_fields_string: the db names of the sorted pairs, joined.
get_fields_string ==
    join([i \in DOMAIN get_sorted_selected_fields |->
            get_sorted_selected_fields[i][2]], ", ")

\* An add_field_where that adds the where term and no parameter.
add_field_where_term_only(b, field) ==
    Try(get_field_db_name(field), LAMBDA field_db_name :
    Try(get_parameter_from_field(b.starting_data[1], field), LAMBDA param :
        Ok([b EXCEPT
              !.where_clauses =
                  Append(@, field_db_name \o " = @" \o param[1].name)])))

\* add_field_where: a where term from a field of the starting record.
add_field_where(b, field) ==
    Try(get_field_db_name(field), LAMBDA field_db_name :
    Try(get_parameter_from_field(b.starting_data[1], field), LAMBDA param :
        IF IsSome(param) /\ IsSome(param[1].value)
        THEN Ok([b EXCEPT
                   !.params = Append(@, param[1]),
                   !.where_clauses =
                       Append(@, field_db_name \o " = @" \o param[1].name)])
        ELSE Ok([b EXCEPT
                   !.where_clauses = Append(@, field_db_name \o " is NULL")])))

ParamNames(params) == {params[i].name : i \in DOMAIN params}

RECURSIVE add_params_fold(_, _)
\* add_params_for_table_query_fields: one parameter per query field of the
\* starting record, unless one of that name exists.  keys is the order in
\* which the HashMap of query_fields(true) is iterated.
add_params_fold(b, keys) ==
    IF keys = <<>> THEN Ok(b)
    ELSE Try(get_parameter_from_field(b.starting_data[1], keys[1]),
             LAMBDA para :
                IF IsSome(para) /\ para[1].name \notin ParamNames(b.params)
                THEN add_params_fold([b EXCEPT !.params = Append(@, para[1])],
                                     Tail(keys))
                ELSE add_params_fold(b, Tail(keys)))

add_params_for_table_query_fields(b, keys) == add_params_fold(b, keys)

\* An add_where_eq that takes a name that is no field as the column.
add_where_eq_unchecked(b, column, ty, value) ==
    LET col == IF IsOk(get_field_db_name(column))
               THEN get_field_db_name(column).v ELSE column
    IN  IF IsSome(value)
        THEN LET param_name == "__PARAM_" \o ToString(Len(b.params))
             IN  Try(get_parameter(ty, value[1], param_name), LAMBDA param :
                     Ok([b EXCEPT
                           !.params = Append(@, param),
                           !.where_clauses =
                               Append(@, col \o " = @" \o param_name)]))
        ELSE Ok([b EXCEPT !.where_clauses = Append(@, col \o " is NULL")])

\* add_where_eq(column, value): value is None or Some(v), v of type ty.
add_where_eq(b, column, ty, value) ==
    Try(get_field_db_name(column), LAMBDA col :
        IF IsSome(value)
        THEN LET param_name == "__PARAM_" \o ToString(Len(b.params))
             IN  Try(get_parameter(ty, value[1], param_name), LAMBDA param :
                     Ok([b EXCEPT
                           !.params = Append(@, param),
                           !.where_clauses =
                               Append(@, col \o " = @" \o param_name)]))
        ELSE Ok([b EXCEPT !.where_clauses = Append(@, col \o " is NULL")]))

set_limit(b, limit) == [b EXCEPT !.limit = Some(limit)]

add_order_by(b, column_name, direction) ==
    [b EXCEPT !.order_by = Append(@, <<column_name, direction>>)]

with_client(b, client) == [b EXCEPT !.client = Some(client)]

\* A set_data that starts the where terms and the parameters afresh.
set_data_afresh(b, data) ==
    [b EXCEPT !.starting_data = Some(data), !.where_clauses = <<>>,
              !.params = <<>>]

set_data(b, data) == [b EXCEPT !.starting_data = Some(data)]

un_build(b) == [b EXCEPT !.built = FALSE]

\* OrderDirection::to_query_str
to_query_str(direction) == IF direction = "Ascending" THEN "ASC" ELSE "DESC"

\* Where terms joined the other way round.
build_where_string_reversed(b) ==
    IF b.where_clauses # <<>>
    THEN " WHERE " \o join([i \in DOMAIN b.where_clauses |->
                               b.where_clauses[Len(b.where_clauses) + 1 - i]],
                           " AND ")
    ELSE ""

build_where_string(b) ==
    IF b.where_clauses # <<>>
    THEN " WHERE " \o join(b.where_clauses, " AND ")
    ELSE ""

RECURSIVE order_by_terms_known(_)
\* A loop that leaves out the order keys that name no field.
order_by_terms_known(order_by) ==
    IF order_by = <<>> THEN Ok(<<>>)
    ELSE Try(order_by_terms_known(Tail(order_by)), LAMBDA rest :
             IF IsOk(get_field_db_name(order_by[1][1]))
             THEN Ok(<<get_field_db_name(order_by[1][1]).v \o " "
                         \o to_query_str(order_by[1][2])>> \o rest)
             ELSE Ok(rest))

RECURSIVE order_by_terms(_)
\* The loop of build_order_by_string: the first unknown column ends it.
order_by_terms(order_by) ==
    IF order_by = <<>> THEN Ok(<<>>)
    ELSE Try(get_field_db_name(order_by[1][1]), LAMBDA column :
         Try(order_by_terms(Tail(order_by)), LAMBDA rest :
             Ok(<<column \o " " \o to_query_str(order_by[1][2])>> \o rest)))

build_order_by_string(b) ==
    IF b.order_by # <<>>
    THEN Try(order_by_terms(b.order_by),
             LAMBDA terms : Ok(" ORDER BY " \o join(terms, ", ")))
    ELSE Ok("")

build_limit_string(b) ==
    IF IsSome(b.limit) THEN " LIMIT " \o ToString(b.limit[1]) ELSE ""

\* QueryBuilder<Select>::build_query
build_query_select(b) ==
    LET table_identifier == get_table_identifier_from_client(b.client[1])
    IN  Try(build_order_by_string(b), LAMBDA order_by_clause :
            Ok([b EXCEPT
                  !.query = "SELECT " \o get_fields_string \o " FROM "
                               \o table_identifier \o build_where_string(b)
                               \o order_by_clause \o build_limit_string(b),
                  !.built = TRUE]))

\* A Delete build that puts the primary key term before the where terms
\* the builder holds.
build_query_delete_pk_first(b) ==
    LET table_identifier == get_table_identifier_from_client(b.client[1])
    IN  Try(add_field_where([b EXCEPT !.where_clauses = <<>>],
                            get_pk_field_name), LAMBDA w :
            Ok([w EXCEPT
                  !.where_clauses = @ \o b.where_clauses,
                  !.query = "DELETE FROM " \o table_identifier \o " "
                               \o " WHERE "
                               \o join(w.where_clauses \o b.where_clauses,
                                       " AND "),
                  !.built = TRUE]))

\* QueryBuilder<Delete>::build_query
build_query_delete(b) ==
    LET table_identifier == get_table_identifier_from_client(b.client[1])
    IN  Try(add_field_where(b, get_pk_field_name), LAMBDA w :
            Ok([w EXCEPT
                  !.query = "DELETE FROM " \o table_identifier \o " "
                               \o build_where_string(w),
                  !.built = TRUE]))

\* The parameter names of an Insert taken from the sorted fields in
\* reverse, so that they no longer line up with the column list.
get_value_parameter_names_reversed(b) ==
    LET names(fields) ==
            [i \in DOMAIN fields |->
                LET pick(param_name) ==
                        IF param_name \in ParamNames(b.params)
                        THEN Some(param_name)
                        ELSE None
                IN  pick(get_field_param_name(
                             fields[Len(fields) + 1 - i][1]).v)]
    IN  names(get_sorted_selected_fields)

\* QueryBuilder<Insert>::get_value_parameter_names
get_value_parameter_names_insert(b) ==
    LET names(fields) ==
            [i \in DOMAIN fields |->
                LET pick(param_name) ==
                        IF param_name \in ParamNames(b.params)
                        THEN Some(param_name)
                        ELSE None
                IN  pick(get_field_param_name(fields[i][1]).v)]
    IN  names(get_sorted_selected_fields)

\* QueryBuilder<Insert>::get_values_params_string
get_values_params_string(b) ==
    LET render(values) ==
            join([i \in DOMAIN values |->
                     IF IsSome(values[i]) THEN "@" \o values[i][1] ELSE "NULL"],
                 ", ")
    IN  render(get_value_parameter_names_insert(b))

\* QueryBuilder<Insert>::build_query
build_query_insert(b, keys) ==
    LET table_identifier == get_table_identifier_from_client(b.client[1])
    IN  Try(add_params_for_table_query_fields(b, keys), LAMBDA p :
            Ok([p EXCEPT
                  !.query = "insert into " \o table_identifier \o " ("
                               \o get_fields_string \o ") values("
                               \o get_values_params_string(p) \o ")",
                  !.built = TRUE]))

\* QueryBuilder<Update>::get_value_parameter_names
get_value_parameter_names_update(b) ==
    LET names(fields) ==
            [i \in DOMAIN fields |->
                LET pick(param_name) ==
                        IF param_name \in ParamNames(b.params)
                        THEN Some(param_name)
                        ELSE None
                IN  << get_field_db_name(fields[i][1]).v,
                       pick(get_field_param_name(fields[i][1]).v) >>]
    IN  names(get_sorted_selected_fields)

\* QueryBuilder<Update>::build_update_fields_string
build_update_fields_string(b) ==
    LET render(names) ==
            join([i \in DOMAIN names |->
                     IF IsSome(names[i][2])
                     THEN names[i][1] \o " = @" \o names[i][2][1]
                     ELSE names[i][1] \o " = NULL"], ", ")
    IN  render(get_value_parameter_names_update(b))

\* An Update build that appends the primary key term whatever where terms
\* the builder holds.
build_query_update_pk_always(b, keys) ==
    LET table_identifier == get_table_identifier_from_client(b.client[1])
    IN  Try(add_field_where(b, get_pk_field_name), LAMBDA w :
        Try(add_params_for_table_query_fields(w, keys), LAMBDA p :
            Ok([p EXCEPT
                  !.query = "update " \o table_identifier \o " set "
                               \o build_update_fields_string(p)
                               \o " " \o build_where_string(w),
                  !.built = TRUE])))

\* QueryBuilder<Update>::build_query
build_query_update(b, keys) ==
    LET table_identifier == get_table_identifier_from_client(b.client[1])
    IN  Try(IF b.where_clauses = <<>>
            THEN add_field_where(b, get_pk_field_name)
            ELSE Ok(b), LAMBDA w :
        Try(add_params_for_table_query_fields(w, keys), LAMBDA p :
            Ok([p EXCEPT
                  !.query = "update " \o table_identifier \o " set "
                               \o build_update_fields_string(p)
                               \o " " \o build_where_string(w),
                  !.built = TRUE])))

\* build_query of the kind of the builder.
build_query(b, keys) ==
    CASE b.kind = "Select" -> build_query_select(b)
      [] b.kind = "Insert" -> build_query_insert(b, keys)
      [] b.kind = "Update" -> build_query_update(b, keys)
      [] b.kind = "Delete" -> build_query_delete(b)

(***************************************************************************)
(* The executor.  A transport outcome is [net |-> "error"] (the call       *)
(* failed) or [net |-> "ok", status, rows]: rows is an Option of a         *)
(* sequence of rows [f |-> Option of cells], a cell is [v |-> Option of    *)
(* JSON].                                                                  *)
(***************************************************************************)
WithRowData(data) == [variant |-> "WithRowData", data |-> data]
WithoutRowData(result) == [variant |-> "WithoutRowData", result |-> result]

\* The answer of the transport to a call that did not fail.
Response(status, rows) == [net |-> "ok", status |-> status, rows |-> rows]

unwrap_or_default(o) == IF IsSome(o) THEN o[1] ELSE <<>>

\* Display of the http StatusCode.
status_display(status) ==
    CASE status = 200 -> "200 OK"
      [] status = 400 -> "400 Bad Request"
      [] status = 404 -> "404 Not Found"
      [] status = 500 -> "500 Internal Server Error"

\* The QueryRequest that run packages.
query_request(b) ==
    [query |-> Some(b.query),
     query_parameters |-> IF b.params = <<>> THEN None ELSE Some(b.params),
     use_legacy_sql |-> Some(FALSE)]

\* A run_query_with_client that hands on the response whatever its status.
run_query_with_client_any_status(outcome) ==
    IF outcome.net = "error" THEN Err("transport error")
    ELSE Ok(outcome)

\* run_query_with_client: the transport error as it is, any status but 200
\* as an error, else the query response.
run_query_with_client(outcome) ==
    IF outcome.net = "error" THEN Err("transport error")
    ELSE IF outcome.status # 200
    THEN Err("Wrong status code returned! (" \o status_display(outcome.status)
                \o ")")
    ELSE Ok(outcome)

\* The cells of a row labelled in the order of declaration of the fields.
row_result_declared(cells) ==
    IF Len(cells) > Len(Fields)
    THEN Panic("index out of bounds")
    ELSE Ok([n \in {Fields[i].db : i \in DOMAIN cells} |->
               LET value(cell) == IF IsSome(cell.v) THEN cell.v[1] ELSE JNull
               IN  value(cells[CHOOSE k \in DOMAIN cells : Fields[k].db = n])])

\* The inner loop of run: the cells of a row labelled by position with the
\* db names of the sorted fields; sorted_fields[i] panics past the end.
row_result(cells) ==
    LET label(sorted_fields) ==
            IF Len(cells) > Len(sorted_fields)
            THEN Panic("index out of bounds")
            ELSE Ok([n \in {sorted_fields[i][2] : i \in DOMAIN cells} |->
                       LET value(cell) ==
                               IF IsSome(cell.v) THEN cell.v[1] ELSE JNull
                       IN  value(cells[CHOOSE k \in DOMAIN cells :
                                            sorted_fields[k][2] = n])])
    IN  label(get_sorted_selected_fields)

RECURSIVE decode_rows(_, _)
\* The outer loop of run: each row becomes a record, the first failure
\* ends the loop.
decode_rows(client, rows) ==
    IF rows = <<>> THEN Ok(<<>>)
    ELSE Try(row_result(unwrap_or_default(rows[1].f)), LAMBDA labelled :
         Try(new_from_query_result_row(client, labelled), LAMBDA rec :
         Try(decode_rows(client, Tail(rows)), LAMBDA rest :
             Ok(<<rec>> \o rest))))

\* QueryBuilder::run
run(b, outcome) ==
    Try(run_query_with_client(outcome), LAMBDA response :
    Try(decode_rows(b.client[1], unwrap_or_default(response.rows)),
        LAMBDA result : Ok(WithRowData(result))))

\* QueryResultType::map_err_with_data / map_err_without_data
map_err_with_data(r, message) ==
    IF r.variant = "WithRowData" THEN Ok(r.data)
    ELSE Err("map_err_with_data message:" \o message)

map_err_without_data(r, message) ==
    IF r.variant = "WithoutRowData" THEN r.result
    ELSE Err("map_err_without_data message:" \o message)

\* QueryResultType::expect_with_data / expect_without_data
expect_with_data(r, message) ==
    IF r.variant = "WithRowData" THEN Ok(r.data)
    ELSE Panic("expect_with_data message:" \o message)

expect_without_data(r, message) ==
    IF r.variant = "WithoutRowData" THEN r.result
    ELSE Panic("expect_without_data message:" \o message)

(***************************************************************************)
(* The warehouse behind the transport.  The remote table is a sequence of  *)
(* rows, a row maps each column to an Option of the text of its value      *)
(* (None is NULL); the table has no key constraint.  The warehouse knows   *)
(* the statements by their text.                                           *)
(***************************************************************************)
ServerTable == Backtick \o "P.D.Infos" \o Backtick

ColumnList == <<"info1", "info", "info3", "yes", "info4i", "Id">>
ColumnText == "info1, info, info3, yes, info4i, Id"

SelectByPkText ==
    "SELECT " \o ColumnText \o " FROM " \o ServerTable
        \o " WHERE Id = @__PARAM_0"

InsertText ==
    "insert into " \o ServerTable \o " (" \o ColumnText \o ") values("
        \o "@__PARAM_info1, @__PARAM_info, @__PARAM_info3, @__PARAM_yes, "
        \o "@__PARAM_info4i, @__PARAM_Id)"

UpdateText ==
    "update " \o ServerTable \o " set info1 = @__PARAM_info1, "
        \o "info = @__PARAM_info, info3 = @__PARAM_info3, yes = @__PARAM_yes, "
        \o "info4i = @__PARAM_info4i, Id = @__PARAM_Id  WHERE Id = @__PARAM_Id"

DeleteText == "DELETE FROM " \o ServerTable \o "  WHERE Id = @__PARAM_Id"

\* The value the warehouse holds for a parameter: a BOOL is held as a
\* boolean and comes back in lower case, any other value as its text.
stored_value(param) ==
    IF param.type = "BOOL" /\ IsSome(param.value)
    THEN Some(IF param.value[1] = "TRUE" THEN "true" ELSE "false")
    ELSE param.value

\* The stored value of the parameter of a name (NULL if there is none).
param_of(request, name) ==
    LET find(params) ==
            IF \E i \in DOMAIN params : params[i].name = name
            THEN stored_value(params[CHOOSE i \in DOMAIN params :
                                         params[i].name = name])
            ELSE None
    IN  find(unwrap_or_default(request.query_parameters))

row_of_params(request) ==
    [c \in Range(ColumnList) |-> param_of(request, "__PARAM_" \o c)]

\* The rows of a response: absent when no row is returned, else one cell
\* per column of the select list.
response_rows(matched) ==
    IF matched = <<>> THEN None
    ELSE Some([i \in DOMAIN matched |->
                 [f |-> Some([k \in DOMAIN ColumnList |->
                                [v |-> IF IsSome(matched[i][ColumnList[k]])
                                       THEN Some(JStr(matched[i][ColumnList[k]][1]))
                                       ELSE None]])]])

\* The warehouse executes a request against the table.
server(rows, request) ==
    CASE request.query = Some(SelectByPkText) ->
            [db |-> rows,
             response |->
                Response(200, response_rows(
                    SelectSeq(rows, LAMBDA r :
                        r.Id = param_of(request, "__PARAM_0"))))]
      [] request.query = Some(InsertText) ->
            [db |-> Append(rows, row_of_params(request)),
             response |-> Response(200, None)]
      [] request.query = Some(UpdateText) ->
            [db |-> [i \in DOMAIN rows |->
                        IF rows[i].Id = param_of(request, "__PARAM_Id")
                        THEN row_of_params(request)
                        ELSE rows[i]],
             response |-> Response(200, None)]
      [] request.query = Some(DeleteText) ->
            [db |-> SelectSeq(rows, LAMBDA r :
                        r.Id # param_of(request, "__PARAM_Id")),
             response |-> Response(200, None)]
      [] OTHER -> [db |-> rows, response |-> Response(400, None)]

\* The transport in one of its modes: the request reaches the warehouse,
\* or the call fails, or the answer has another status than 200.
\* The modes the table state machine draws from:
TableModes == {"ok", "net"}

transport(rows, request, mode) ==
    CASE mode = "ok" -> server(rows, request)
      [] mode = "net" -> [db |-> rows, response |-> [net |-> "error"]]
      [] mode = "status" -> [db |-> rows, response |-> Response(500, None)]

\* run of a built builder over the transport: the result of run, the table
\* afterwards and the request that was issued.
send(b, mode, rows) ==
    LET reply(t) ==
            [result |-> run(b, t.response), db |-> t.db,
             requests |-> <<[kind |-> b.kind, mode |-> mode]>>]
    IN  reply(transport(rows, query_request(b), mode))

\* A method that ends before it issues a request.
nothing_sent(r, rows) == [result |-> r, db |-> rows, requests |-> <<>>]

(***************************************************************************)
(* The table facade                                                        *)
(***************************************************************************)
\* A get_by_pk that takes the first of several rows.
get_by_pk_rows_first(result, pk_value) ==
    IF result.variant = "WithoutRowData"
    THEN Err("something went wrong when getting for " \o get_pk_field_name)
    ELSE IF Len(result.data) = 0
    THEN Err("No entry found for " \o get_pk_db_name \o " = "
                \o ToString(pk_value))
    ELSE Ok(result.data[1])

\* get_by_pk, after run: the match on the result and the row count.
get_by_pk_rows(result, pk_value) ==
    IF result.variant = "WithoutRowData"
    THEN Err("something went wrong when getting for " \o get_pk_field_name)
    ELSE IF Len(result.data) = 0
    THEN Err("No entry found for " \o get_pk_db_name \o " = "
                \o ToString(pk_value))
    ELSE IF Len(result.data) > 1
    THEN Err("More than one entry found for " \o get_pk_db_name \o " = "
                \o ToString(pk_value))
    ELSE Ok(result.data[1])

\* BigQueryTable::get_by_pk
get_by_pk(client, pk_value, mode, rows) ==
    LET after_run(x) ==
            [result |-> Try(x.result, LAMBDA result :
                            get_by_pk_rows(result, pk_value)),
             db |-> x.db, requests |-> x.requests]
        after_build(built) ==
            IF IsOk(built) THEN after_run(send(built.v, mode, rows))
            ELSE nothing_sent(built, rows)
    IN  after_build(Try(add_where_eq(with_client(table_select, client),
                                     get_pk_field_name, PkField.ty,
                                     Some(pk_value)),
                        LAMBDA b : build_query_select(b)))

\* A reload that reports the outcome and leaves self as it was.
reload_keeping_self(self, mode, rows) ==
    LET map(g) ==
            [result |-> Try(g.result, LAMBDA t : Ok("unit")),
             self |-> self, db |-> g.db, requests |-> g.requests]
    IN  map(get_by_pk(self.client, self.row_id, mode, rows))

\* The generated reload: get_by_pk of the own key, *self = t on success.
reload(self, mode, rows) ==
    LET map(g) ==
            [result |-> Try(g.result, LAMBDA t : Ok("unit")),
             self |-> IF IsOk(g.result) THEN g.result.v ELSE self,
             db |-> g.db, requests |-> g.requests]
    IN  map(get_by_pk(self.client, self.row_id, mode, rows))

\* save, after run: no row may come back.
save_count(result) ==
    Try(expect_with_data(result, "save should return empty data."),
        LAMBDA data :
            IF Len(data) = 0 THEN Ok("unit")
            ELSE Err("save should return empty data, but returned "
                        \o ToString(Len(data)) \o " rows."))

\* BigQueryTable::save
save(self, keys, mode, rows) ==
    LET after_run(x) ==
            [result |-> Try(x.result, LAMBDA result : save_count(result)),
             db |-> x.db, requests |-> x.requests]
        after_build(built) ==
            IF IsOk(built) THEN after_run(send(built.v, mode, rows))
            ELSE nothing_sent(built, rows)
    IN  after_build(build_query_update(
            set_data(with_client(table_update, self.client), self), keys))

\* The Err arm of upsert: the insert of self.
upsert_insert(self, keys, mode, rows) ==
    LET after_run(x) ==
            [result |-> Try(x.result, LAMBDA result :
                            map_err_without_data(result,
                                "upsert should not return data.")),
             db |-> x.db, requests |-> x.requests]
        after_build(built) ==
            IF IsOk(built) THEN after_run(send(built.v, mode, rows))
            ELSE nothing_sent(built, rows)
    IN  after_build(build_query_insert(
            set_data(with_client(table_insert, self.client), self), keys))

\* BigQueryTable::upsert: reload of a clone, then save or insert.
upsert(self, keys, mode1, mode2, rows) ==
    LET dispatch(exists) ==
            IF exists.result.tag = "Panic"
            THEN [result |-> exists.result, db |-> exists.db,
                  requests |-> exists.requests]
            ELSE LET both(w) ==
                         [result |-> w.result, db |-> w.db,
                          requests |-> exists.requests \o w.requests]
                 IN  both(IF IsOk(exists.result)
                          THEN save(self, keys, mode2, exists.db)
                          ELSE upsert_insert(self, keys, mode2, exists.db))
    IN  dispatch(reload(self, mode1, rows))

RECURSIVE update_from(_, _, _)
\* BigQueryTable::update_from: keys is the order in which the HashMap of
\* query_fields(true) is iterated; the fields set before a failure stay.
update_from(self, other, keys) ==
    IF keys = <<>> THEN [result |-> Ok("unit"), self |-> self]
    ELSE LET set(r) ==
                 IF IsOk(r) THEN update_from(r.v, other, Tail(keys))
                 ELSE [result |-> r, self |-> self]
             get(value) ==
                 IF IsOk(value)
                 THEN set(set_field_value(self, keys[1], value.v))
                 ELSE [result |-> value, self |-> self]
         IN  get(get_field_value(other, keys[1]))

\* The delete of a record as test_upsert runs it.
delete_run(self, mode, rows) ==
    LET after_build(built) ==
            IF IsOk(built) THEN send(built.v, mode, rows)
            ELSE nothing_sent(built, rows)
    IN  after_build(build_query_delete(
            set_data(with_client(delete("NoStartingData").v, self.client), self)))

(***************************************************************************)
(* The typestate: which method the type of a builder offers.               *)
(***************************************************************************)
with_client_available(b) == b.kind # "NoBuilder" /\ b.client = None /\ ~b.built
set_data_available(b) == b.kind \in Kinds /\ ~b.built /\ b.starting_data = None
add_where_eq_available(b) == b.kind # "NoBuilder" /\ ~b.built
set_limit_available(b) == b.kind # "NoBuilder" /\ ~b.built
add_field_where_available(b) ==
    b.kind # "NoBuilder" /\ ~b.built /\ IsSome(b.starting_data)
add_order_by_available(b) == b.kind = "Select" /\ ~b.built
build_query_available(b) ==
    /\ b.kind \in Kinds
    /\ IsSome(b.client)
    /\ ~b.built
    /\ (b.kind = "Select" \/ IsSome(b.starting_data))
un_build_available(b) == b.kind # "NoBuilder" /\ b.built
\* A run offered for a builder that was never built.
run_available_unbuilt(b) == b.kind \in Kinds /\ IsSome(b.client)

run_available(b) == b.kind \in Kinds /\ IsSome(b.client) /\ b.built

(***************************************************************************)
(* Bounds and inputs of the builder state machine                          *)
(***************************************************************************)
MaxWhere == 2
MaxOrder == 2
MaxBuilds == 2
\* The where terms and the order keys one builder is given, together.
MaxChain == 4

\* The limits set_limit is given.
LimitArgs == {1, 2}

Client1 == [project_id |-> "P", dataset_id |-> "D"]

RecFull ==
    [client |-> Client1, row_id |-> 1, info1 |-> Some("a"), info2 |-> Some("b"),
     info3 |-> Some("c"), info4i |-> Some(1), info4b |-> Some(TRUE)]
\* The record of the insert scenario: info2 is None.
RecS3 == [RecFull EXCEPT !.info2 = None]
\* The record of test_upsert: every optional field is None.
RecNulls ==
    [client |-> Client1, row_id |-> 1923, info1 |-> None, info2 |-> None,
     info3 |-> None, info4i |-> None, info4b |-> None]
\* The records set_data is given.
Records == {RecFull, RecS3}

\* The arguments add_where_eq is called with: a column, the type T and the
\* Option<&T>.  The last two are a Some(&None) of an optional type and a
\* Some(&f64::NAN).
WhereArgs ==
    { [column |-> "info1", ty |-> Ty("String"), value |-> None],
      [column |-> "info3", ty |-> Ty("String"), value |-> Some("cc")],
      [column |-> "nope", ty |-> Ty("String"), value |-> Some("cc")],
      [column |-> "info1", ty |-> OptTy("String"), value |-> Some(None)],
      [column |-> "info1", ty |-> Ty("f64"), value |-> Some(<<"NaN">>)] }

OrderArgs ==
    { <<"info2", "Ascending">>, <<"row_id", "Descending">>,
      <<"nope", "Ascending">> }

FieldWhereArgs == {"row_id", "nope"}

\* Orders in which the HashMap of query_fields(true) may be iterated (any
\* permutation can occur; the model draws from these).
KeyOrders ==
    { <<"row_id", "info1", "info2", "info3", "info4i", "info4b">>,
      <<"info3", "row_id", "info4b", "info1", "info4i", "info2">> }

Cell(s) == [v |-> Some(JStr(s))]
NullCell == [v |-> None]
\* The cells of RecFull in the order of the emitted column list.
RowFull == [f |-> Some(<<Cell("a"), Cell("b"), Cell("c"), Cell("true"),
                         Cell("1"), Cell("1")>>)]
RowNullCell == [f |-> Some(<<NullCell, Cell("b"), Cell("c"), Cell("true"),
                             Cell("1"), Cell("1")>>)]
RowShort == [f |-> Some(<<Cell("a"), Cell("b")>>)]
RowLong == [f |-> Some(<<Cell("a"), Cell("b"), Cell("c"), Cell("true"),
                         Cell("1"), Cell("1"), Cell("x")>>)]
RowNoCells == [f |-> None]
RowBadPk == [f |-> Some(<<Cell("a"), Cell("b"), Cell("c"), Cell("true"),
                          Cell("1"), NullCell>>)]

\* What the transport may answer to a request of the builder machine.
Outcomes ==
    { [net |-> "error"],
      Response(404, None),
      Response(200, None),
      Response(200, Some(<<>>)),
      Response(200, Some(<<RowFull>>)),
      Response(200, Some(<<RowFull, RowNullCell>>)),
      Response(200, Some(<<RowShort>>)),
      Response(200, Some(<<RowLong>>)),
      Response(200, Some(<<RowNoCells>>)),
      Response(200, Some(<<RowBadPk>>)) }

(***************************************************************************)
(* State                                                                   *)
(***************************************************************************)
VARIABLES
    qb,      \* the query builder in hand, or NoBuilder
    last,    \* the last builder operation and what it returned
    hist,    \* history of the builder in hand: what its operations were given
    entry,   \* the record the facade methods act on (self)
    track,   \* what is known of entry: loaded by get_by_pk, saved since
    db,      \* the rows of the remote table
    flast,   \* the last facade operation, its result and its requests
    cval,    \* the value under conversion by the codec
    derived  \* the struct definition given to the derive macro, and the outcome

vars == <<qb, last, hist, entry, track, db, flast, cval, derived>>
bvars == <<qb, last, hist>>
tvars == <<entry, track, db, flast>>

NoBuilder == [kind |-> "NoBuilder"]

Idle == [op |-> "none"]

FreshHist ==
    [with_client |-> None, set_data |-> FALSE, built_ok |-> FALSE,
     wheres |-> <<>>, orders |-> <<>>, limit |-> None, builds |-> 0]

Last(seq) == seq[Len(seq)]

\* The record of an operation that returns a builder (or fails).  The
\* infallible chaining methods leave the same record: the builder in hand
\* and its history tell them apart.  build_query and un_build, the two
\* moves between NotBuilt and Built, leave their own.
Chained == [op |-> "chain"]

Returned(op, b, r) ==
    IF IsOk(r) /\ op \notin {"build_query", "un_build"}
    THEN Chained
    ELSE [op |-> op, kind |-> b.kind,
          result |-> IF IsOk(r) THEN Ok("builder") ELSE r]

(***************************************************************************)
(* The builder state machine: one action per builder method                *)
(***************************************************************************)
\* A constructor: the builder it returns, or its panic.
Construct(r) ==
    /\ qb = NoBuilder
    /\ qb' = IF IsOk(r) THEN r.v ELSE NoBuilder
    /\ hist' = FreshHist
    /\ last' = IF IsOk(r) THEN Chained ELSE [op |-> "construct", result |-> r]
    /\ UNCHANGED <<tvars, cval, derived>>

Select == \E StartingData \in StartingDataTypes : Construct(select(StartingData))
Insert == \E StartingData \in StartingDataTypes : Construct(insert(StartingData))
Update == \E StartingData \in StartingDataTypes : Construct(update(StartingData))
Delete == \E StartingData \in StartingDataTypes : Construct(delete(StartingData))

WithClient ==
    /\ with_client_available(qb)
    /\ \E client \in {Client1} :
          /\ qb' = with_client(qb, client)
          /\ hist' = [hist EXCEPT !.with_client = Some(client)]
          /\ last' = Returned("with_client", qb, Ok(qb))
    /\ UNCHANGED <<tvars, cval, derived>>

SetData ==
    /\ set_data_available(qb)
    /\ \E data \in Records :
          /\ qb' = set_data(qb, data)
          /\ hist' = [hist EXCEPT !.set_data = TRUE]
          /\ last' = Returned("set_data", qb, Ok(qb))
    /\ UNCHANGED <<tvars, cval, derived>>

AddWhereEq ==
    /\ add_where_eq_available(qb)
    /\ Len(qb.where_clauses) < MaxWhere
    /\ Len(qb.where_clauses) + Len(qb.order_by) < MaxChain
    /\ \E a \in WhereArgs :
          \E r \in {add_where_eq(qb, a.column, a.ty, a.value)} :
              /\ qb' = IF IsOk(r) THEN r.v ELSE NoBuilder
              /\ hist' = IF IsOk(r)
                         THEN [hist EXCEPT
                                 !.wheres = Append(@, Last(r.v.where_clauses))]
                         ELSE hist
              /\ last' = Returned("add_where_eq", qb, r)
    /\ UNCHANGED <<tvars, cval, derived>>

AddFieldWhere ==
    /\ add_field_where_available(qb)
    /\ Len(qb.where_clauses) < MaxWhere
    /\ Len(qb.where_clauses) + Len(qb.order_by) < MaxChain
    /\ \E field \in FieldWhereArgs :
          \E r \in {add_field_where(qb, field)} :
              /\ qb' = IF IsOk(r) THEN r.v ELSE NoBuilder
              /\ hist' = IF IsOk(r)
                         THEN [hist EXCEPT
                                 !.wheres = Append(@, Last(r.v.where_clauses))]
                         ELSE hist
              /\ last' = Returned("add_field_where", qb, r)
    /\ UNCHANGED <<tvars, cval, derived>>

SetLimit ==
    /\ set_limit_available(qb)
    /\ \E limit \in LimitArgs :
          /\ qb' = set_limit(qb, limit)
          /\ hist' = [hist EXCEPT !.limit = Some(limit)]
          /\ last' = Returned("set_limit", qb, Ok(qb))
    /\ UNCHANGED <<tvars, cval, derived>>

AddOrderBy ==
    /\ add_order_by_available(qb)
    /\ Len(qb.order_by) < MaxOrder
    /\ Len(qb.where_clauses) + Len(qb.order_by) < MaxChain
    /\ \E a \in OrderArgs :
          /\ qb' = add_order_by(qb, a[1], a[2])
          /\ hist' = [hist EXCEPT !.orders = Append(@, a)]
          /\ last' = Returned("add_order_by", qb, Ok(qb))
    /\ UNCHANGED <<tvars, cval, derived>>

BuildQuery ==
    /\ build_query_available(qb)
    /\ hist.builds < MaxBuilds
    /\ \E keys \in KeyOrders :
          \E r \in {build_query(qb, keys)} :
              /\ qb' = IF IsOk(r) THEN r.v ELSE NoBuilder
              /\ hist' = [hist EXCEPT !.built_ok = IsOk(r),
                                      !.builds = @ + 1]
              /\ last' = Returned("build_query", qb, r)
    /\ UNCHANGED <<tvars, cval, derived>>

UnBuild ==
    /\ un_build_available(qb)
    /\ qb' = un_build(qb)
    /\ hist' = [hist EXCEPT !.built_ok = FALSE]
    /\ last' = Returned("un_build", qb, Ok(qb))
    /\ UNCHANGED <<tvars, cval, derived>>

\* run consumes the builder.
Run ==
    /\ run_available(qb)
    /\ \E outcome \in Outcomes :
          last' = [op |-> "run", kind |-> qb.kind, result |-> run(qb, outcome),
                   outcome |-> outcome]
    /\ qb' = NoBuilder
    /\ hist' = FreshHist
    /\ UNCHANGED <<tvars, cval, derived>>

Entry0 == RecFull
Untracked == [loaded |-> FALSE, saved |-> None]
CIdle == [phase |-> "idle"]
DIdle == [phase |-> "idle"]

Init ==
    /\ qb = NoBuilder
    /\ last = Idle
    /\ hist = FreshHist
    /\ entry = Entry0
    /\ track = Untracked
    /\ db = <<>>
    /\ flast = Idle
    /\ cval = CIdle
    /\ derived = DIdle

Next ==
    \/ Select \/ Insert \/ Update \/ Delete
    \/ WithClient \/ SetData
    \/ AddWhereEq \/ AddFieldWhere \/ SetLimit \/ AddOrderBy
    \/ BuildQuery \/ UnBuild \/ Run

Spec == Init /\ [][Next]_vars

(***************************************************************************)
(* The table state machine: one action per facade method, on the record    *)
(* entry and the remote table db.  A method and the requests it issues are *)
(* one step; each request meets the transport in a mode of its own.        *)
(***************************************************************************)
MaxRows == 2

\* The keys get_by_pk is asked for.
PkArgs == {1, 9999}

\* The local changes of a field of entry.
EditArgs ==
    { <<"info1", Some("z")>>, <<"info3", None>>,
      <<"row_id", 9999>>, <<"row_id", 1>> }

\* The arguments of update_from.
Others == {RecNulls}

\* Rows that other clients of the warehouse insert.
EnvRows ==
    { [Id |-> Some("9999"), info1 |-> None, info |-> Some("b"),
       info3 |-> Some("c"), yes |-> Some("false"), info4i |-> Some("7")] }

\* The rows of a table with a key.
RowsWithPk(rows, pk_value) ==
    SelectSeq(rows, LAMBDA r : r.Id = Some(ToString(pk_value)))

Delivered(requests) == \A i \in DOMAIN requests : requests[i].mode = "ok"

TGetByPk ==
    /\ \E pk \in PkArgs, mode \in TableModes :
          \E g \in {get_by_pk(entry.client, pk, mode, db)} :
              /\ entry' = IF IsOk(g.result) THEN g.result.v ELSE entry
              /\ db' = g.db
              /\ track' = IF IsOk(g.result)
                          THEN [loaded |-> TRUE, saved |-> None]
                          ELSE track
              /\ flast' = [op |-> "get_by_pk", pk |-> pk, result |-> g.result,
                           requests |-> g.requests]
    /\ UNCHANGED <<bvars, cval, derived>>

TReload ==
    /\ \E mode \in TableModes :
          \E r \in {reload(entry, mode, db)} :
              /\ entry' = r.self
              /\ db' = r.db
              /\ track' = IF IsOk(r.result)
                          THEN [loaded |-> TRUE, saved |-> None]
                          ELSE track
              /\ flast' = [op |-> "reload", result |-> r.result,
                           requests |-> r.requests, saved |-> track.saved,
                           kept |-> r.self = entry,
                           got |-> get_by_pk(entry.client, entry.row_id,
                                             mode, db).result]
    /\ UNCHANGED <<bvars, cval, derived>>

TSave ==
    /\ \E keys \in KeyOrders, mode \in TableModes :
          \E r \in {save(entry, keys, mode, db)} :
              /\ db' = r.db
              /\ track' = IF IsOk(r.result) /\ track.loaded
                          THEN [loaded |-> TRUE, saved |-> Some(entry)]
                          ELSE track
              /\ flast' = [op |-> "save", result |-> r.result,
                           requests |-> r.requests, loaded |-> track.loaded]
    /\ UNCHANGED <<entry, bvars, cval, derived>>

TUpsert ==
    /\ Len(db) < MaxRows
    /\ \E keys \in KeyOrders, mode1 \in TableModes, mode2 \in TableModes :
          \E u \in {upsert(entry, keys, mode1, mode2, db)} :
              /\ db' = u.db
              /\ flast' = [op |-> "upsert", result |-> u.result,
                           requests |-> u.requests,
                           absent |-> RowsWithPk(db, entry.row_id) = <<>>,
                           exists |-> IsOk(reload(entry, mode1, db).result)]
    /\ track' = Untracked
    /\ UNCHANGED <<entry, bvars, cval, derived>>

TUpdateFrom ==
    /\ \E other \in Others, keys \in KeyOrders :
          \E u \in {update_from(entry, other, keys)} :
              /\ entry' = u.self
              /\ flast' = [op |-> "update_from", result |-> u.result,
                           requests |-> <<>>, other |-> other]
    /\ track' = Untracked
    /\ UNCHANGED <<db, bvars, cval, derived>>

TEdit ==
    /\ \E a \in EditArgs :
          /\ entry' = [entry EXCEPT ![a[1]] = a[2]]
          /\ track' = IF a[1] = get_pk_field_name THEN Untracked ELSE track
    /\ flast' = [op |-> "edit"]
    /\ UNCHANGED <<db, bvars, cval, derived>>

TDelete ==
    /\ \E mode \in TableModes :
          \E d \in {delete_run(entry, mode, db)} :
              /\ db' = d.db
              /\ flast' = [op |-> "delete", result |-> d.result,
                           requests |-> d.requests]
    /\ track' = Untracked
    /\ UNCHANGED <<entry, bvars, cval, derived>>

EnvInsert ==
    /\ Len(db) < MaxRows
    /\ \E row \in EnvRows : db' = Append(db, row)
    /\ track' = Untracked
    /\ flast' = [op |-> "env"]
    /\ UNCHANGED <<entry, bvars, cval, derived>>

NextTable ==
    \/ TGetByPk \/ TReload \/ TSave \/ TUpsert \/ TUpdateFrom
    \/ TEdit \/ TDelete \/ EnvInsert

SpecTable == Init /\ [][NextTable]_vars

(***************************************************************************)
(* The codec state machine: a value of a supported type goes through       *)
(* to_param, the JSON value goes through from_param.                       *)
(***************************************************************************)
MaxSecs == 12
MaxFloat == 2

Bases == {"bool", "i32", "i64", "f64", "String", "DateTime"}

BaseValues(base) ==
    CASE base = "bool" -> BOOLEAN
      [] base = "i32" -> IntDom
      [] base = "i64" -> IntDom
      [] base = "f64" -> {<<"fin", k>> : k \in 0..MaxFloat} \cup {<<"NaN">>}
      [] base = "String" -> {"", "a", "TRUE"}
      [] base = "DateTime" -> [secs : 0..MaxSecs, nanos : {0, 500}]

Types == {Ty(base) : base \in Bases} \cup {OptTy(base) : base \in Bases}

Values(ty) ==
    IF ty.opt
    THEN {None} \cup {Some(v) : v \in BaseValues(ty.base)}
    ELSE BaseValues(ty.base)

ToParam ==
    /\ cval.phase = "idle"
    /\ \E ty \in Types :
          \E v \in Values(ty) :
              cval' = [phase |-> "param", ty |-> ty, v |-> v,
                       param |-> to_param(ty, v)]
    /\ UNCHANGED <<bvars, tvars, derived>>

FromParam ==
    /\ cval.phase = "param"
    /\ cval' = [phase |-> "back", ty |-> cval.ty, v |-> cval.v,
                param |-> cval.param,
                back |-> from_param(cval.ty, cval.param)]
    /\ UNCHANGED <<bvars, tvars, derived>>

\* The JSON values a response cell or a caller may hand to from_param.
WireStrings ==
    {"TRUE", "true", "FALSE", "false", "True", "yes", "", "12x"}
        \cup {ToString(n) : n \in IntDom}

WireValues ==
    {JNull} \cup {JStr(s) : s \in WireStrings} \cup {JNum(n) : n \in IntDom}
        \cup {JBool(b) : b \in BOOLEAN}

\* from_param on a JSON value that did not come from to_param.
Decode ==
    /\ cval.phase = "idle"
    /\ \E ty \in Types :
          \E j \in WireValues :
              cval' = [phase |-> "decoded", ty |-> ty, param |-> j,
                       back |-> from_param(ty, j)]
    /\ UNCHANGED <<bvars, tvars, derived>>

Forget ==
    /\ cval.phase \in {"back", "decoded"}
    /\ cval' = CIdle
    /\ UNCHANGED <<bvars, tvars, derived>>

NextCodec == ToParam \/ FromParam \/ Decode \/ Forget

SpecCodec == Init /\ [][NextCodec]_vars

(***************************************************************************)
(* The derive macro BigDataTableDerive.  Its input (ast) is a struct with  *)
(* named fields, a sequence of [ident, attrs, db_name]: attrs is the set   *)
(* of the attributes without argument on the field, db_name the argument   *)
(* of its db_name attribute, if it has one.                                *)
(***************************************************************************)
\* attributes(...) of proc_macro_derive: the helper attributes the derive
\* brings into scope.
helper_attributes == {"db_name", "required", "client", "primary_key"}

\* The attributes on a field.
field_attrs(field) ==
    field.attrs \cup (IF IsSome(field.db_name) THEN {"db_name"} ELSE {})

\* parse_local_field: None for an ignored field unless include_ignored; the
\* db name is the argument of db_name, and the local name without one.
parse_local_field(field, include_ignored) ==
    IF "db_ignore" \in field.attrs /\ ~include_ignored
    THEN None
    ELSE Some([field_ident |-> field.ident,
               local_name |-> field.ident,
               db_name |-> IF IsSome(field.db_name)
                           THEN field.db_name[1]
                           ELSE field.ident,
               required |-> "required" \in field.attrs])

\* get_fields: the parsed fields that are not ignored.
get_fields(data) ==
    LET parsed(kept) ==
            [i \in DOMAIN kept |-> parse_local_field(kept[i], FALSE)[1]]
    IN  parsed(SelectSeq(data,
                         LAMBDA f : IsSome(parse_local_field(f, FALSE))))

\* get_fields_with_attribute: the parsed fields that carry the attribute,
\* ignored ones included.
get_fields_with_attribute(data, attribute_name) ==
    LET parsed(kept) ==
            [i \in DOMAIN kept |-> parse_local_field(kept[i], TRUE)[1]]
    IN  parsed(SelectSeq(data, LAMBDA f : attribute_name \in field_attrs(f)))

\* get_pk_field
get_pk_field(ast) ==
    LET only(pk_fields) ==
            IF Len(pk_fields) # 1
            THEN Panic("Exactly one primary key field must be specified")
            ELSE Ok(pk_fields[1])
    IN  only(get_fields_with_attribute(ast, "primary_key"))

\* get_client_field
get_client_field(data) ==
    LET only(client_fields) ==
            IF Len(client_fields) # 1
            THEN Panic("Exactly one client field must be specified")
            ELSE Ok(client_fields[1])
    IN  only(get_fields_with_attribute(data, "client"))

\* get_fields_without_client
get_fields_without_client(data) ==
    Try(get_client_field(data), LAMBDA client :
        Ok(SelectSeq(get_fields(data),
                     LAMBDA field : field.field_ident # client.field_ident)))

\* HashMap::insert
map_insert(map, k, v) ==
    [x \in DOMAIN map \cup {k} |-> IF x = k THEN v ELSE map[x]]

RECURSIVE map_insert_all(_, _)
\* The map.insert statements of the fields, in order.
map_insert_all(map, fields) ==
    IF fields = <<>> THEN map
    ELSE map_insert_all(map_insert(map, fields[1].local_name,
                                   fields[1].db_name),
                        Tail(fields))

\* A generated get_query_fields that inserts the primary key whatever
\* include_pk is.
implement_get_query_fields_pk_always(ast) ==
    Try(get_fields_without_client(ast), LAMBDA fields :
    Try(get_pk_field(ast), LAMBDA pk_field :
        Ok([include_pk \in BOOLEAN |->
              map_insert_all(<<>>, <<pk_field>> \o fields)])))

\* implement_get_query_fields: the generated get_query_fields(include_pk)
\* inserts the primary key if include_pk, then every field that is neither
\* the client nor the primary key.
implement_get_query_fields(ast) ==
    Try(get_fields_without_client(ast), LAMBDA fields :
    Try(get_pk_field(ast), LAMBDA pk_field :
        Ok([include_pk \in BOOLEAN |->
              map_insert_all(
                  IF include_pk
                  THEN map_insert(<<>>, pk_field.local_name, pk_field.db_name)
                  ELSE <<>>,
                  SelectSeq(fields,
                            LAMBDA f : f.field_ident # pk_field.field_ident))])))

\* implement_big_query_table_base: the generated impl, as the values its
\* functions return.
implement_big_query_table_base(ast, pk_field, client_field) ==
    Try(implement_get_query_fields(ast), LAMBDA query_fields :
        Ok([get_pk_field_name |-> pk_field.local_name,
            get_pk_db_name |-> pk_field.db_name,
            client |-> client_field.field_ident,
            pk_value |-> pk_field.field_ident,
            get_query_fields |-> query_fields]))

\* impl_big_query_table_derive
impl_big_query_table_derive(ast) ==
    Try(get_pk_field(ast), LAMBDA pk_field :
    Try(get_client_field(ast), LAMBDA client_field :
        implement_big_query_table_base(ast, pk_field, client_field)))

\* The compilation of a struct with the derive: the macro runs; an
\* attribute that is no helper attribute of the derive is not found (and
\* the struct literal of the generated new_from_query_result_row lacks
\* every ignored field); the generated get_client returns the client
\* field as a BigqueryClient and the generated get_pk_value returns the
\* primary key as a BigDataValueType, which a BigqueryClient is not.
big_query_table_derive(input) ==
    Try(impl_big_query_table_derive(input), LAMBDA tokens :
        IF \E i \in DOMAIN input :
              ~(field_attrs(input[i]) \subseteq helper_attributes)
        THEN Err("cannot find attribute in this scope")
        ELSE IF tokens.client = tokens.pk_value
        THEN Err("the trait BigDataValueType is not implemented")
        ELSE Ok(tokens))

\* The most fields a struct given to the derive has.
MaxFields == 3

FieldIdent(i) == "f" \o ToString(i)

\* What a field of a struct given to the derive may carry.
FieldChoices ==
    [attrs : SUBSET {"client", "primary_key", "db_ignore"},
     db_name : {None, Some("x")}]

\* The struct DbInfos of the tests.
DbInfosAst ==
    << [ident |-> "client", attrs |-> {"client"}, db_name |-> None],
       [ident |-> "row_id", attrs |-> {"primary_key"},
        db_name |-> Some("Id")],
       [ident |-> "info1", attrs |-> {}, db_name |-> None],
       [ident |-> "info2", attrs |-> {}, db_name |-> Some("info")],
       [ident |-> "info3", attrs |-> {}, db_name |-> None],
       [ident |-> "info4i", attrs |-> {}, db_name |-> None],
       [ident |-> "info4b", attrs |-> {}, db_name |-> Some("yes")] >>

\* A struct of the fields a choice function names, the field at place i
\* under the identifier of place i.
StructOf(c) ==
    [i \in DOMAIN c |-> [ident |-> FieldIdent(i), attrs |-> c[i].attrs,
                         db_name |-> c[i].db_name]]

\* The compiler meets a struct with #[derive(BigDataTableDerive)]: DbInfos,
\* or a struct of up to MaxFields fields.
Derive ==
    /\ derived.phase = "idle"
    /\ \E n \in 0..MaxFields :
          \E c \in IF n = 0 THEN {DbInfosAst} ELSE [1..n -> FieldChoices] :
              \E ast \in {IF n = 0 THEN c ELSE StructOf(c)} :
                  derived' = [phase |-> "done", ast |-> ast,
                              result |-> big_query_table_derive(ast)]
    /\ UNCHANGED <<bvars, tvars, cval>>

DForget ==
    /\ derived.phase = "done"
    /\ derived' = DIdle
    /\ UNCHANGED <<bvars, tvars, cval>>

NextDerive == Derive \/ DForget

SpecDerive == Init /\ [][NextDerive]_vars

(***************************************************************************)
(* Properties of the builder state machine (Spec)                          *)
(***************************************************************************)
WriteKinds == {"Insert", "Update", "Delete"}

\* C1: run is offered only for a builder that had a client attached and
\* whose last build_query succeeded with no un_build since; build_query is
\* offered for an Insert, Update or Delete only after set_data.
C1_RunnableOnlyWhenConfigured ==
    /\ run_available(qb) => IsSome(hist.with_client) /\ hist.built_ok
    /\ (build_query_available(qb) /\ qb.kind \in WriteKinds) => hist.set_data

C1_Witness ==
    /\ last.op = "run"
    /\ last.kind = "Update"
    /\ IsOk(last.result)

\* C2: a successful run of a Select returns WithRowData, a successful run
\* of an Insert, Update or Delete returns WithoutRowData.
C2_RunVariantByKind ==
    (last.op = "run" /\ IsOk(last.result)) =>
        IF last.kind = "Select"
        THEN last.result.v.variant = "WithRowData"
        ELSE last.result.v.variant = "WithoutRowData"

\* The text the description of build_query lays out for a Select, from
\* what the builder was given: the where terms and the order keys in the
\* order of the calls, and the limit of the last set_limit.
C10_Expected ==
    "SELECT " \o get_fields_string \o " FROM " \o Backtick
        \o hist.with_client[1].project_id \o "."
        \o hist.with_client[1].dataset_id \o "." \o TableName \o Backtick
        \o (IF hist.wheres = <<>> THEN ""
            ELSE " WHERE " \o join(hist.wheres, " AND "))
        \o (IF hist.orders = <<>> THEN ""
            ELSE " ORDER BY "
                   \o join([i \in DOMAIN hist.orders |->
                              FieldOf(hist.orders[i][1]).db \o " "
                                \o (IF hist.orders[i][2] = "Ascending"
                                    THEN "ASC" ELSE "DESC")], ", "))
        \o (IF hist.limit = None THEN ""
            ELSE " LIMIT " \o ToString(hist.limit[1]))

C10_SelectBuilt ==
    /\ last.op = "build_query"
    /\ last.kind = "Select"
    /\ IsOk(last.result)

\* C10: the text a successful build_query of a Select emits is the SELECT
\* head, then the where terms joined by AND in call order, then the order
\* keys joined by commas in call order, then the limit of the last
\* set_limit, each clause only if it has content.
C10_SelectText == C10_SelectBuilt => qb.query = C10_Expected

C10_Witness ==
    /\ C10_SelectBuilt
    /\ Len(hist.wheres) = 2
    /\ hist.wheres[1] # hist.wheres[2]
    /\ Len(hist.orders) = 2
    /\ hist.orders[1] # hist.orders[2]
    /\ IsSome(hist.limit)

\* The db names of the query fields in ascending byte order of a key of
\* the field: a field stands after as many fields as have a smaller key.
C11_ColumnsBy(key(_)) ==
    [i \in 1..Len(Fields) |->
        FieldOf(CHOOSE l \in LocalNames :
                    Cardinality({m \in LocalNames :
                                    seq_less(Bytes(key(m)), Bytes(key(l)))})
                        = i - 1).db]

C11_ByDbName == C11_ColumnsBy(LAMBDA l : FieldOf(l).db)
C11_ByLocalName == C11_ColumnsBy(LAMBDA l : l)

C11_Built ==
    /\ last.op = "build_query"
    /\ last.kind \in {"Select", "Insert"}
    /\ IsOk(last.result)

\* The text of a built Select or Insert around a column list.
C11_Text(columns) ==
    IF qb.kind = "Select"
    THEN "SELECT " \o columns \o " FROM "
            \o get_table_identifier_from_client(qb.client[1])
            \o build_where_string(qb) \o build_order_by_string(qb).v
            \o build_limit_string(qb)
    ELSE "insert into " \o get_table_identifier_from_client(qb.client[1])
            \o " (" \o columns \o ") values("
            \o get_values_params_string(qb) \o ")"

\* C11: the column list of every emitted SELECT and INSERT is the db names
\* of the query fields in lexicographic order of the db names.
C11_ColumnsSortedByDbName ==
    C11_Built => qb.query = C11_Text(join(C11_ByDbName, ", "))

\* C11, amended: the column list of every emitted SELECT and INSERT is the
\* db names of the query fields in lexicographic order of the local names
\* of the fields, whatever builder operations came before build_query.
C11_ColumnsSortedByLocalName ==
    C11_Built => qb.query = C11_Text(join(C11_ByLocalName, ", "))

C11_Witness ==
    /\ C11_Built
    /\ last.kind = "Insert"
    /\ C11_ByDbName # C11_ByLocalName

C12_ColumnText == "info1, info, info3, yes, info4i, Id"

\* C12: the sorted fields stand in ascending order of their local names,
\* and for the descriptor of DbInfos the column list of an emitted SELECT
\* is info1, info, info3, yes, info4i, Id.
C12_FieldsByLocalName ==
    /\ \A i, j \in DOMAIN get_sorted_selected_fields :
          i < j => seq_less(Bytes(get_sorted_selected_fields[i][1]),
                            Bytes(get_sorted_selected_fields[j][1]))
    /\ get_fields_string = C12_ColumnText
    /\ C10_SelectBuilt =>
          qb.query = "SELECT " \o C12_ColumnText \o " FROM "
                        \o get_table_identifier_from_client(qb.client[1])
                        \o build_where_string(qb)
                        \o build_order_by_string(qb).v
                        \o build_limit_string(qb)

C12_Witness ==
    /\ C10_SelectBuilt
    /\ qb.query = "SELECT " \o C12_ColumnText \o " FROM "
                      \o Backtick \o "P.D.Infos" \o Backtick

\* Orders in which the columns of the descriptor can be listed.
C13_ColumnOrders ==
    {C11_ByDbName, C11_ByLocalName, [i \in DOMAIN Fields |-> Fields[i].db]}

\* The cells of a row, each under the name at its position in columns.
C13_Labelled(columns, cells) ==
    [n \in {columns[i] : i \in DOMAIN cells} |->
        LET value(cell) == IF IsSome(cell.v) THEN cell.v[1] ELSE JNull
        IN  value(cells[CHOOSE k \in DOMAIN cells : columns[k] = n])]

\* The rows of a response whose rows all hold one cell per column.
C13_FullRows(outcome) ==
    /\ outcome.net = "ok"
    /\ outcome.status = 200
    /\ IsSome(outcome.rows)
    /\ outcome.rows[1] # <<>>
    /\ \A i \in DOMAIN outcome.rows[1] :
          /\ IsSome(outcome.rows[1][i].f)
          /\ Len(outcome.rows[1][i].f[1]) = Len(Fields)

\* A run of a built Select: whatever order the column list of the emitted
\* text has, the records run returns are the rows decoded with the cells
\* labelled in that order.
C13_RunStep ==
    (qb.kind = "Select" /\ qb.built /\ last'.op = "run"
        /\ C13_FullRows(last'.outcome)) =>
    /\ \E columns \in C13_ColumnOrders :
          qb.query = C11_Text(join(columns, ", "))
    /\ \A columns \in C13_ColumnOrders :
          qb.query = C11_Text(join(columns, ", ")) =>
            LET rows == last'.outcome.rows[1]
                rec(i) == new_from_query_result_row(
                              qb.client[1],
                              C13_Labelled(columns, rows[i].f[1]))
            IN  /\ IsOk(last'.result) <=> \A i \in DOMAIN rows : IsOk(rec(i))
                /\ IsOk(last'.result) =>
                      last'.result.v =
                          WithRowData([i \in DOMAIN rows |-> rec(i).v])

\* C13: for every Select, the column list run labels the cells of each
\* response row with is, element for element, the column list build_query
\* emitted in the text of the query.
C13_DecodeOrderIsEmittedOrder == [][C13_RunStep]_vars

C13_Witness ==
    /\ last.op = "run"
    /\ last.kind = "Select"
    /\ last.outcome = Response(200, Some(<<RowFull, RowNullCell>>))
    /\ IsOk(last.result)
    /\ Len(last.result.v.data) = 2
    /\ last.result.v.data[1] = RecFull
    /\ last.result.v.data[2] = [RecFull EXCEPT !.info1 = None]

\* The entry of the VALUES list of a built Insert for each query field, in
\* the order of the column list: the parameter of a field with a value,
\* the literal NULL for a field without one.
C14_Values(rec) ==
    [i \in DOMAIN get_sorted_selected_fields |->
        IF rec[get_sorted_selected_fields[i][1]] = None
        THEN "NULL"
        ELSE "@__PARAM_" \o get_sorted_selected_fields[i][2]]

\* C14: build_query of an Insert succeeds whatever the record holds; a
\* query field with a value contributes exactly one parameter named
\* __PARAM_<db_name> and stands in the VALUES list as @__PARAM_<db_name>, a
\* query field that is null contributes no parameter and stands there as
\* the literal NULL.
C14_InsertValuesAndParams ==
    (last.op = "build_query" /\ last.kind = "Insert") =>
        /\ IsOk(last.result)
        /\ \A l \in LocalNames :
              Cardinality({i \in DOMAIN qb.params :
                              qb.params[i].name = "__PARAM_" \o FieldOf(l).db})
                  = IF qb.starting_data[1][l] = None THEN 0 ELSE 1
        /\ qb.query = "insert into "
                         \o get_table_identifier_from_client(qb.client[1])
                         \o " (" \o get_fields_string \o ") values("
                         \o join(C14_Values(qb.starting_data[1]), ", ")
                         \o ")"

\* The where term of the primary key of the starting record.
C15_PkTerm == get_pk_db_name \o " = @__PARAM_" \o get_pk_db_name

\* A successful build_query of an Update: the where terms after it are the
\* primary key term alone when the builder held none, and the terms the
\* builder held otherwise; the text ends with them.
C15_BuildStep ==
    (qb.kind = "Update" /\ ~qb.built /\ last'.op = "build_query"
        /\ IsOk(last'.result)) =>
    /\ qb'.where_clauses = IF qb.where_clauses = <<>>
                            THEN <<C15_PkTerm>>
                            ELSE qb.where_clauses
    /\ qb'.query = "update "
                      \o get_table_identifier_from_client(qb.client[1])
                      \o " set " \o build_update_fields_string(qb')
                      \o "  WHERE " \o join(qb'.where_clauses, " AND ")

\* C15: build_query of an Update appends the where term of the primary key
\* of the starting record if and only if the builder holds no where term
\* at that moment.
C15_UpdateImplicitPkWhere == [][C15_BuildStep]_vars

C15_Witness ==
    /\ last.op = "build_query"
    /\ last.kind = "Update"
    /\ IsOk(last.result)
    /\ hist.wheres = <<>>
    /\ qb.where_clauses = <<"Id = @__PARAM_Id">>
    /\ qb.starting_data = Some(RecFull)

\* A build_query of a Delete: it returns a builder whose where terms are
\* the terms held before followed by the primary key term, and whose text
\* joins them with AND in that order.
C16_BuildStep ==
    (qb.kind = "Delete" /\ ~qb.built /\ last'.op = "build_query") =>
    /\ IsOk(last'.result)
    /\ qb'.where_clauses = Append(qb.where_clauses, C15_PkTerm)
    /\ Len(qb'.params) = Len(qb.params) + 1
    /\ Last(qb'.params).name = "__PARAM_" \o get_pk_db_name
    /\ qb'.query = "DELETE FROM "
                      \o get_table_identifier_from_client(qb.client[1])
                      \o "  WHERE "
                      \o join(Append(qb.where_clauses, C15_PkTerm), " AND ")

\* C16: build_query of a Delete always appends the where term of the
\* primary key of the starting record; the emitted WHERE holds the explicit
\* terms, then the primary key term, joined with AND in insertion order.
C16_DeleteAppendsPkWhere == [][C16_BuildStep]_vars

C16_Witness ==
    /\ last.op = "build_query"
    /\ last.kind = "Delete"
    /\ IsOk(last.result)
    /\ hist.wheres = <<"info3 = @__PARAM_0">>
    /\ qb.where_clauses = <<"info3 = @__PARAM_0", "Id = @__PARAM_Id">>
    /\ qb.query = "DELETE FROM " \o Backtick \o "P.D.Infos" \o Backtick
                     \o "  WHERE info3 = @__PARAM_0 AND Id = @__PARAM_Id"

\* What add_where_eq returns for an argument at the builder in hand.
C17_Returned(a) == add_where_eq(qb, a.column, a.ty, a.value)

\* The step add_where_eq(a) takes from the builder in hand.
C17_Called(a) ==
    /\ add_where_eq_available(qb)
    /\ a.column \in LocalNames
    /\ qb' = IF IsOk(C17_Returned(a)) THEN C17_Returned(a).v ELSE NoBuilder
    /\ last' = Returned("add_where_eq", qb, C17_Returned(a))

\* The parameter the call is said to record: the name of index k, the
\* warehouse type of T and the encoded value.
C17_Param(a, k) ==
    [name |-> "__PARAM_" \o ToString(k),
     type |-> bigquery_type_of(a.ty),
     value |-> Some(convert_value_to_string(to_param(a.ty, a.value[1])).v)]

\* A call of add_where_eq on a column of the record returns a builder;
\* with Some(v) it holds one more where term <db_name> = @__PARAM_<k> and
\* one more parameter, k above every index in use; with None it holds one
\* more where term <db_name> is NULL and the same parameters.
C17_CallStep ==
    \A a \in WhereArgs :
        C17_Called(a) =>
            /\ qb' # NoBuilder
            /\ IF IsSome(a.value)
               THEN \E k \in 0..Len(qb.params) :
                      /\ \A i \in DOMAIN qb.params, n \in k..Len(qb.params) :
                            qb.params[i].name # "__PARAM_" \o ToString(n)
                      /\ qb'.where_clauses =
                            Append(qb.where_clauses,
                                   FieldOf(a.column).db \o " = @__PARAM_"
                                       \o ToString(k))
                      /\ qb'.params = Append(qb.params, C17_Param(a, k))
               ELSE /\ qb'.where_clauses =
                          Append(qb.where_clauses,
                                 FieldOf(a.column).db \o " is NULL")
                    /\ qb'.params = qb.params

\* C17: add_where_eq(col, Some(v)) appends the term <db_name> = @__PARAM_<k>
\* and exactly one parameter of that name with the warehouse type of T and
\* the encoded value, k above the index of every earlier call;
\* add_where_eq(col, None) appends <db_name> is NULL and no parameter.
C17_WhereEqTermAndParam == [][C17_CallStep]_vars

\* C20: run returns the error of the transport as it is when the call
\* fails, and an error with the message Wrong status code returned!
\* (<status>) when the status of the response is not 200; in both cases no
\* record is produced.
C20_RunErrors ==
    last.op = "run" =>
        /\ last.outcome.net = "error" => last.result = Err("transport error")
        /\ (last.outcome.net = "ok" /\ last.outcome.status # 200) =>
              last.result = Err("Wrong status code returned! ("
                                    \o status_display(last.outcome.status)
                                    \o ")")
        /\ (last.outcome.net = "error" \/ last.outcome.status # 200) =>
              ~IsOk(last.result)

C20_Witness ==
    /\ last.op = "run"
    /\ last.outcome = Response(404, None)
    /\ last.result = Err("Wrong status code returned! (404 Not Found)")

\* A set_data step: the history of the builder in hand records it.
C23_SetDataCalled == ~hist.set_data /\ hist'.set_data

\* A step of set_data starts from an Insert, Update or Delete builder with
\* no starting data and changes nothing but the starting data.
C23_SetDataStep ==
    C23_SetDataCalled =>
        /\ qb.kind \in WriteKinds
        /\ qb.starting_data = None
        /\ qb'.starting_data \in {Some(data) : data \in Records}
        /\ qb' = [qb EXCEPT !.starting_data = qb'.starting_data]

\* C23, amended: set_data is available only on builders of a statement
\* kind (Select, Insert, Update or Delete) that hold no starting data; it
\* moves the builder to HasStartingData and leaves the where terms,
\* parameters, order keys, limit and client as they were.
C23_SetDataStepAnyKind ==
    C23_SetDataCalled =>
        /\ qb.kind \in Kinds
        /\ qb.starting_data = None
        /\ qb'.starting_data \in {Some(data) : data \in Records}
        /\ qb' = [qb EXCEPT !.starting_data = qb'.starting_data]

C23_SetDataOnAnyKind == [][C23_SetDataStepAnyKind]_vars

C23_Witness ==
    /\ qb.kind = "Select"
    /\ hist.set_data
    /\ qb.starting_data = Some(RecS3)
    /\ qb.where_clauses = <<"info3 = @__PARAM_0">>
    /\ Len(qb.params) = 1

\* C23: set_data is available only on Insert, Update and Delete builders
\* that hold no starting data, not on Select builders; it moves the
\* builder to HasStartingData and leaves the where terms, parameters,
\* order keys, limit and client as they were.
C23_SetDataOnlyOnWriteKinds == [][C23_SetDataStep]_vars

\* The step add_where_eq(a) takes from the builder in hand, a any argument.
C24_WhereCalled(a) ==
    /\ add_where_eq_available(qb)
    /\ Len(qb.where_clauses) < MaxWhere
    /\ qb' = IF IsOk(C17_Returned(a)) THEN C17_Returned(a).v ELSE NoBuilder
    /\ last' = Returned("add_where_eq", qb, C17_Returned(a))

\* A step of add_order_by: the history records one more order key.
C24_OrderCalled == Len(hist'.orders) = Len(hist.orders) + 1

\* The keys of query_fields(true).
C24_Keys == DOMAIN get_query_fields(TRUE)

C24_Unknown(name) == name \notin C24_Keys

\* add_where_eq with a name that is no key of query_fields(true) returns
\* the error of get_field_db_name, and the builder is gone with the call.
C24_WhereStep ==
    \A a \in WhereArgs :
        (C24_Unknown(a.column) /\ C24_WhereCalled(a)) =>
            /\ last' = [op |-> "add_where_eq", kind |-> qb.kind,
                         result |-> Err("Field " \o a.column
                                            \o " not found.")]
            /\ qb' = NoBuilder

\* C24: add_where_eq and add_order_by each return an error at the call
\* when the name is no key of query_fields(true), and then no where term,
\* order key or parameter is added.
C24_UnknownFieldFailsAtCall ==
    [][/\ C24_WhereStep
       /\ (C24_OrderCalled /\ C24_Unknown(Last(hist'.orders)[1])) =>
              /\ last'.op = "add_order_by"
              /\ last'.result.tag = "Err"
              /\ qb' = NoBuilder]_vars

\* C24, amended: add_where_eq returns an error at the call when the name
\* is no key of query_fields(true), and nothing is added; add_order_by
\* returns the builder with the key added, whatever the name.
C24_WhereFailsOrderAccepts ==
    [][/\ C24_WhereStep
       /\ C24_OrderCalled =>
              /\ last' = Chained
              /\ qb' = [qb EXCEPT
                           !.order_by = Append(@, Last(hist'.orders))]]_vars

C24_Witness ==
    /\ qb.kind = "Select"
    /\ ~qb.built
    /\ last = Chained
    /\ qb.order_by = <<<<"nope", "Ascending">>>>
    /\ hist.orders = qb.order_by

\* The order keys given to the builder in hand that name no field.
C25_UnknownKeys ==
    {i \in DOMAIN hist.orders : C24_Unknown(hist.orders[i][1])}

\* C25: a Select builder that holds an order key naming no field of
\* query_fields(true) is never built: build_query returns the error of the
\* first such key and no query text is produced.
C25_UnknownOrderKeyNeverBuilt ==
    C25_UnknownKeys # {} =>
        /\ qb # NoBuilder => ~qb.built
        /\ last.op = "build_query" =>
              /\ qb = NoBuilder
              /\ last.result =
                    Err("Field "
                          \o hist.orders[CHOOSE i \in C25_UnknownKeys :
                                \A j \in C25_UnknownKeys : i <= j][1]
                          \o " not found.")

C25_Witness ==
    /\ last.op = "build_query"
    /\ last.kind = "Select"
    /\ last.result = Err("Field nope not found.")
    /\ hist.orders = <<<<"info2", "Ascending">>, <<"nope", "Ascending">>>>
    /\ qb = NoBuilder

\* The cells of a row under the names of the column list, JSON null for a
\* cell with no value and for a column the row has no cell for.
C26_Padded(cells) ==
    [n \in {get_sorted_selected_fields[i][2] :
                i \in DOMAIN get_sorted_selected_fields} |->
        LET k == CHOOSE i \in DOMAIN get_sorted_selected_fields :
                     get_sorted_selected_fields[i][2] = n
        IN  IF k <= Len(cells) /\ IsSome(cells[k].v)
            THEN cells[k].v[1]
            ELSE JNull]

\* The response holds rows, none with more cells than columns.
C26_Rows(outcome) ==
    /\ outcome.net = "ok"
    /\ outcome.status = 200
    /\ IsSome(outcome.rows)
    /\ \A i \in DOMAIN outcome.rows[1] :
          Len(unwrap_or_default(outcome.rows[1][i].f))
              <= Len(get_sorted_selected_fields)

\* A run over such a response: every row is decoded from its padded
\* cells; run returns the records, or the error of the first row that
\* has a null for a field that is not optional.
C26_RunStep ==
    (qb # NoBuilder /\ qb.built /\ last'.op = "run"
        /\ C26_Rows(last'.outcome)) =>
    LET rows == last'.outcome.rows[1]
        rec(i) == new_from_query_result_row(
                      qb.client[1],
                      C26_Padded(unwrap_or_default(rows[i].f)))
        failed == {i \in DOMAIN rows : ~IsOk(rec(i))}
    IN  /\ last'.result.tag # "Panic"
        /\ last'.result =
              IF failed = {}
              THEN Ok(WithRowData([i \in DOMAIN rows |-> rec(i).v]))
              ELSE rec(CHOOSE i \in failed : \A j \in failed : i <= j)

\* C26: run decodes every response row without aborting: a cell with no
\* value, and a column a short row has no cell for, decode as JSON null
\* (None for an optional field, an error result for one that is not).
C26_MissingCellsDecodeAsNull == [][C26_RunStep]_vars

\* C27: in every state of a builder reached by add_where_eq,
\* add_field_where, set_data, build_query and un_build, the names of the
\* parameters the builder holds (and run sends) are pairwise distinct.
C27_ParamNamesDistinct ==
    qb # NoBuilder =>
        \A i, j \in DOMAIN qb.params :
            i # j => qb.params[i].name # qb.params[j].name

\* A build_query that follows an un_build with no operation in between.
C28_Rebuilt == last.op = "un_build" /\ last'.op = "build_query"

\* C28: for a built builder of any kind, un_build followed at once by
\* build_query yields the same query text and the same parameter list as
\* before, any number of times.
C28_RebuildIsIdentity ==
    [][C28_Rebuilt =>
          /\ IsOk(last'.result)
          /\ qb'.query = qb.query
          /\ qb'.params = qb.params]_vars

\* The names of the parameters run sends: those of the request.
C29_Sent ==
    LET names(query_parameters) ==
            IF IsSome(query_parameters)
            THEN ParamNames(query_parameters[1]) ELSE {}
    IN  names(query_request(qb).query_parameters)

\* A where term refers to no parameter, or to one that is sent.
C29_WhereTermBound(term) ==
    \E l \in LocalNames :
        \/ term = FieldOf(l).db \o " is NULL"
        \/ \E n \in C29_Sent : term = FieldOf(l).db \o " = @" \o n

\* The value of a column in an INSERT or UPDATE: a reference to the
\* parameter of the column if it is sent, else the literal NULL.
C29_ValueOf(column) ==
    IF "__PARAM_" \o column \in C29_Sent
    THEN "@__PARAM_" \o column ELSE "NULL"

C29_Columns ==
    [i \in DOMAIN get_sorted_selected_fields |->
        get_sorted_selected_fields[i][2]]

\* The text of a built query, written with references to sent parameters
\* only.
C29_Text ==
    LET ident == get_table_identifier_from_client(qb.client[1])
        where == IF qb.where_clauses = <<>> THEN ""
                 ELSE " WHERE " \o join(qb.where_clauses, " AND ")
    IN  CASE qb.kind = "Select" ->
                "SELECT " \o join(C29_Columns, ", ") \o " FROM " \o ident
                    \o where \o build_order_by_string(qb).v
                    \o build_limit_string(qb)
          [] qb.kind = "Delete" -> "DELETE FROM " \o ident \o " " \o where
          [] qb.kind = "Insert" ->
                "insert into " \o ident \o " (" \o join(C29_Columns, ", ")
                    \o ") values("
                    \o join([i \in DOMAIN C29_Columns |->
                                C29_ValueOf(C29_Columns[i])], ", ")
                    \o ")"
          [] qb.kind = "Update" ->
                "update " \o ident \o " set "
                    \o join([i \in DOMAIN C29_Columns |->
                                C29_Columns[i] \o " = "
                                    \o C29_ValueOf(C29_Columns[i])], ", ")
                    \o " " \o where

C29_Built == qb # NoBuilder /\ qb.built /\ last.op = "build_query"

\* C29: in every built query, each parameter reference @<name> of the text
\* names a parameter of the list run sends with the request.
C29_ReferencesAreBound ==
    C29_Built =>
        /\ \A i \in DOMAIN qb.where_clauses :
              C29_WhereTermBound(qb.where_clauses[i])
        /\ qb.query = C29_Text

C29_Witness ==
    /\ C29_Built
    /\ qb.kind = "Update"
    /\ qb.where_clauses = <<"info3 = @__PARAM_0">>
    /\ C29_Sent = {"__PARAM_0", "__PARAM_Id", "__PARAM_info1", "__PARAM_info",
                   "__PARAM_info3", "__PARAM_info4i", "__PARAM_yes"}

\* The text of an INSERT whose column list is columns and whose i-th value
\* is the literal NULL for i in nulls and the parameter of the i-th column
\* otherwise.
C30_Text(columns, nulls) ==
    "insert into " \o get_table_identifier_from_client(qb.client[1])
        \o " (" \o join(columns, ", ") \o ") values("
        \o join([i \in DOMAIN columns |->
                    IF i \in nulls THEN "NULL"
                    ELSE "@__PARAM_" \o columns[i]], ", ")
        \o ")"

C30_Built == C29_Built /\ qb.kind = "Insert"

\* C30: in every built INSERT the column list and the VALUES list have the
\* same length, and the i-th value is the literal NULL or @__PARAM_<c> with
\* c the i-th column of the column list.
C30_InsertValuesAlign ==
    C30_Built =>
        \E nulls \in SUBSET DOMAIN C11_ByLocalName :
            qb.query = C30_Text(C11_ByLocalName, nulls)

C30_Witness ==
    /\ C30_Built
    /\ qb.query = C30_Text(<<"info1", "info", "info3", "yes", "info4i", "Id">>,
                           {})

(***************************************************************************)
(* Properties of the codec on JSON values from the wire (SpecCodec)        *)
(***************************************************************************)
C21_IntegerDecoded ==
    /\ cval.phase = "decoded"
    /\ cval.ty \in {Ty("i32"), Ty("i64")}

\* C21: from_param of i32 and of i64 accepts a JSON string of decimal
\* digits and a JSON number, and yields the same integer for both.
C21_IntegerFromStringOrNumber ==
    C21_IntegerDecoded =>
        \A n \in IntDom :
            cval.param \in {JStr(ToString(n)), JNum(n)} => cval.back = Ok(n)

C22_BoolDecoded ==
    /\ cval.phase = "decoded"
    /\ cval.ty = Ty("bool")

\* C22: from_param of bool is true for the strings TRUE and true, false
\* for FALSE and false, and an error for every other input; to_param of
\* bool emits only the strings TRUE and FALSE.
C22_BoolTokens ==
    /\ C22_BoolDecoded =>
          IF cval.param \in {JStr("TRUE"), JStr("true")}
          THEN cval.back = Ok(TRUE)
          ELSE IF cval.param \in {JStr("FALSE"), JStr("false")}
          THEN cval.back = Ok(FALSE)
          ELSE cval.back.tag = "Err"
    /\ (cval.phase \in {"param", "back"} /\ cval.ty = Ty("bool")) =>
          cval.param = IF cval.v THEN JStr("TRUE") ELSE JStr("FALSE")

C22_Witness ==
    /\ C22_BoolDecoded
    /\ cval.param = JBool(TRUE)
    /\ cval.back.tag = "Err"

(***************************************************************************)
(* Properties of the derive state machine (SpecDerive)                     *)
(***************************************************************************)
\* The db name a field of a struct declares.
C18_DbName(field) ==
    IF IsSome(field.db_name) THEN field.db_name[1] ELSE field.ident

\* The mapping local name -> db name of the fields of a struct that are
\* neither the client nor ignored, and that are not the primary key unless
\* include_pk.
C18_Mapping(ast, include_pk) ==
    LET wanted == {i \in DOMAIN ast :
                      /\ "client" \notin ast[i].attrs
                      /\ "db_ignore" \notin ast[i].attrs
                      /\ include_pk \/ "primary_key" \notin ast[i].attrs}
    IN  [l \in {ast[i].ident : i \in wanted} |->
            C18_DbName(ast[CHOOSE i \in wanted : ast[i].ident = l])]

C18_Accepted == derived.phase = "done" /\ IsOk(derived.result)

\* C18: query_fields(true) of a derived type holds exactly one entry
\* local name -> db name for every field that is neither the client nor
\* ignored, the primary key included; query_fields(false) is the same
\* mapping without the entry of the primary key.  For DbInfos they are the
\* mappings of the descriptor the builder uses.
C18_QueryFields ==
    C18_Accepted =>
        /\ \A include_pk \in BOOLEAN :
              derived.result.v.get_query_fields[include_pk]
                  = C18_Mapping(derived.ast, include_pk)
        /\ derived.result.v.get_pk_field_name
              \in DOMAIN derived.result.v.get_query_fields[TRUE]
        /\ derived.result.v.get_query_fields[FALSE]
              = [l \in DOMAIN derived.result.v.get_query_fields[TRUE]
                          \ {derived.result.v.get_pk_field_name} |->
                    derived.result.v.get_query_fields[TRUE][l]]
        /\ derived.ast = DbInfosAst =>
              \A include_pk \in BOOLEAN :
                  derived.result.v.get_query_fields[include_pk]
                      = get_query_fields(include_pk)

C18_Witness ==
    /\ C18_Accepted
    /\ derived.ast = DbInfosAst
    /\ Cardinality(DOMAIN derived.result.v.get_query_fields[TRUE]) = 6
    /\ derived.result.v.get_query_fields[TRUE]["info2"] = "info"
    /\ derived.result.v.get_query_fields[TRUE]["row_id"] = "Id"
    /\ "row_id" \notin DOMAIN derived.result.v.get_query_fields[FALSE]
    /\ "client" \notin DOMAIN derived.result.v.get_query_fields[TRUE]

\* The number of the fields of a struct that carry an attribute.
C19_Marked(ast, attribute) ==
    Cardinality({i \in DOMAIN ast : attribute \in ast[i].attrs})

\* C19: a struct is accepted if and only if it has exactly one field
\* marked client, exactly one field marked primary_key and pairwise
\* distinct db names among its fields; every other struct is rejected.
C19_AcceptedIffWellFormed ==
    derived.phase = "done" =>
        (IsOk(derived.result) <=>
            /\ C19_Marked(derived.ast, "client") = 1
            /\ C19_Marked(derived.ast, "primary_key") = 1
            /\ \A i, j \in DOMAIN derived.ast :
                  i # j => C18_DbName(derived.ast[i])
                               # C18_DbName(derived.ast[j]))

(***************************************************************************)
(* Properties of the table state machine (SpecTable)                       *)
(***************************************************************************)
\* C3: an upsert of a record whose key is in no row, over a transport that
\* delivers, returns Ok and leaves a row with that key in the table.
C3_UpsertOfAbsentKey ==
    (flast.op = "upsert" /\ Delivered(flast.requests) /\ flast.absent)
    => /\ IsOk(flast.result)
       /\ RowsWithPk(db, entry.row_id) # <<>>

RequestKinds(requests) == [i \in DOMAIN requests |-> requests[i].kind]

\* C4: upsert issues a select first, then exactly one UPDATE if the reload
\* succeeded and exactly one INSERT if it failed, and nothing else.
C4_UpsertRequestOrder ==
    flast.op = "upsert" =>
        RequestKinds(flast.requests) =
            IF flast.exists THEN <<"Select", "Update">>
            ELSE <<"Select", "Insert">>

\* C5: a save of a record obtained from get_by_pk, whatever the local
\* changes (a field set to None among them), succeeds over a transport that
\* delivers, and a following reload restores the values that were saved.
C5_SaveThenReload ==
    /\ (flast.op = "save" /\ flast.loaded /\ Delivered(flast.requests))
        => IsOk(flast.result)
    /\ (flast.op = "reload" /\ IsSome(flast.saved)
            /\ Delivered(flast.requests))
        => IsOk(flast.result) /\ entry = flast.saved[1]

\* The record a row of the table stands for.
C6_RecordOfRow(client, r) ==
    [client |-> client,
     row_id |-> CHOOSE n \in IntDom : ToString(n) = r.Id[1],
     info1 |-> r.info1,
     info2 |-> r.info,
     info3 |-> r.info3,
     info4i |-> IF r.info4i = None THEN None
                ELSE Some(CHOOSE n \in IntDom : ToString(n) = r.info4i[1]),
     info4b |-> IF r.yes = None THEN None ELSE Some(r.yes[1] = "true")]

\* get_by_pk leaves the table as it is: the rows it was asked for.
C6_Matching == RowsWithPk(db, flast.pk)

\* C6: over a transport that delivers, get_by_pk returns the record of the
\* row when exactly one row has the key, fails with the message
\* "No entry found for Id = <value>" when none has, and fails when more
\* than one has.
C6_GetByPkCardinality ==
    (flast.op = "get_by_pk" /\ Delivered(flast.requests)) =>
        /\ Len(flast.requests) = 1
        /\ Len(C6_Matching) = 1 =>
              flast.result = Ok(C6_RecordOfRow(Client1, C6_Matching[1]))
        /\ Len(C6_Matching) = 0 =>
              flast.result = Err("No entry found for Id = "
                                    \o ToString(flast.pk))
        /\ Len(C6_Matching) > 1 => ~IsOk(flast.result)

C6_Witness ==
    /\ flast.op = "get_by_pk"
    /\ flast.result = Err("No entry found for Id = 9999")

\* C7: reload leaves in self the record get_by_pk returned for the key of
\* self when that call succeeded, and leaves self as it was when it failed.
C7_ReloadReplacesOrKeeps ==
    flast.op = "reload" =>
        IF IsOk(flast.got)
        THEN IsOk(flast.result) /\ entry = flast.got.v
        ELSE ~IsOk(flast.result) /\ flast.kept

C7_Witness ==
    /\ flast.op = "reload"
    /\ IsOk(flast.result)
    /\ ~flast.kept

\* C8: update_from succeeds for every pair of records, and afterwards every
\* query field of self has the value it has in other.
C8_UpdateFromCopies ==
    flast.op = "update_from" =>
        /\ IsOk(flast.result)
        /\ \A f \in DOMAIN get_query_fields(TRUE) :
              get_field_value(entry, f) = get_field_value(flast.other, f)
        /\ flast.requests = <<>>

(***************************************************************************)
(* Properties of the codec state machine (SpecCodec)                       *)
(***************************************************************************)
\* A value with its datetime cut to whole seconds.
C9_Truncated(ty, v) ==
    IF ty.base # "DateTime" THEN v
    ELSE IF ~ty.opt THEN [v EXCEPT !.nanos = 0]
    ELSE IF v = None THEN None
    ELSE Some([v[1] EXCEPT !.nanos = 0])

\* C9: from_param of the to_param of a value succeeds and gives the value
\* back, a datetime cut to whole seconds.
C9_RoundTrip ==
    cval.phase = "back" =>
        /\ IsOk(cval.back)
        /\ cval.back.v = C9_Truncated(cval.ty, cval.v)

=============================================================================
